---- MODULE Spec2Model ----
(***************************************************************************)
(* Portfolio Architect: the master timeline, the rebalancing simulation    *)
(* and the React state that feeds them (src/App.tsx), the financeService   *)
(* functions (normalizeDate, parseNumber, calculateStats, correlation),    *)
(* the URL-parameter effect, the allocation handlers and the CSV upload    *)
(* (src/components/FileUpload.tsx).                                        *)
(*                                                                         *)
(* Four specifications: SimSpec runs one simulation memo step by step,     *)
(* Spec runs the App with a render in every handler, FnSpec calls the      *)
(* financeService functions on their own, UiSpec runs the handlers, the    *)
(* effect and the upload without the memos.                                *)
(*                                                                         *)
(* JavaScript numbers are modelled as exact rationals <<n, d>> in lowest   *)
(* terms (d > 0); IEEE-754 rounding is outside the model.  Canonical date  *)
(* strings YYYY-MM-DD are modelled as the integer YYYYMMDD, whose integer  *)
(* order is the string order the code sorts and compares by.               *)
(***************************************************************************)
EXTENDS Integers, Sequences, FiniteSets, TLC

VARIABLES
    loading,              \* App state: useState(true)
    strategies,           \* App state: Strategy[] (id, data as insertion-ordered Map)
    allocations,          \* App state: Record<string, number>
    deferredAllocations,  \* value of useDeferredValue(allocations) in the last render
    initialBalance,       \* settings.initialBalance (= deferredSettings.initialBalance)
    rebalanceFreq,        \* rebalanceFreq (= deferredRebalanceFreq)
    spyData,              \* benchmark: [loaded, data]; loaded = FALSE is null
    tz,                   \* the browser's time zone: "utc" (or east of it) / "west"
    parsedTimeline,       \* useMemo parsedTimeline of the last render
    sim,                  \* the simulation useMemo: its loop state, then its result
    pc,                   \* where the simulation useMemo is: "idle", "loop", "done"
    chartStrategies,      \* the strategies prop handed to EquityChart in the last render
    uploads,              \* number of uploads so far (stands for Date.now() in the new id)
    allocOrder,           \* Object.keys(allocations): the keys in insertion order
    urlParams,            \* the strat and weights parameters of the page's URL
    effectDue,            \* the URL-parameter effect is due: loading or strategies changed
    parsing,              \* FileUpload: the file Papa.parse is reading, or was last given
    error,                \* FileUpload state: the error message shown, or "null"
    probe                 \* a call of a financeService function: its arguments and result

vars == <<loading, strategies, allocations, deferredAllocations, initialBalance,
          rebalanceFreq, spyData, tz, parsedTimeline, sim, pc, chartStrategies, uploads,
          allocOrder, urlParams, effectDue, parsing, error, probe>>

-----------------------------------------------------------------------------
(* Bounds of the model *)

\* Largest number of strategies a simulation run is started with.
MaxStrategies == 2

\* Largest number of user uploads in one session.
MaxUploads == 1

-----------------------------------------------------------------------------
(* JavaScript numbers as exact rationals *)

Abs(x) == IF x < 0 THEN -x ELSE x

RECURSIVE Gcd(_, _)
Gcd(a, b) == IF b = 0 THEN a ELSE Gcd(b, a % b)

\* n/d in lowest terms with a positive denominator (d # 0)
Rat(n, d) ==
    LET g == Gcd(Abs(n), Abs(d))
        s == IF d < 0 THEN -1 ELSE 1
    IN  <<(s * n) \div g, (s * d) \div g>>

R(n) == <<n, 1>>
Zero == R(0)
One == R(1)

RAdd(a, b) ==
    LET g == Gcd(a[2], b[2])
    IN  Rat(a[1] * (b[2] \div g) + b[1] * (a[2] \div g), (a[2] \div g) * b[2])

RNeg(a) == <<-a[1], a[2]>>
RSub(a, b) == RAdd(a, RNeg(b))

RMul(a, b) ==
    LET g1 == Gcd(Abs(a[1]), b[2])
        g2 == Gcd(Abs(b[1]), a[2])
    IN  IF a[1] = 0 \/ b[1] = 0 THEN Zero
        ELSE <<(a[1] \div g1) * (b[1] \div g2), (a[2] \div g2) * (b[2] \div g1)>>

\* a / b for b # 0
RDiv(a, b) == RMul(a, IF b[1] < 0 THEN <<-b[2], -b[1]>> ELSE <<b[2], b[1]>>)

RPos(a) == a[1] > 0
RNonNeg(a) == a[1] >= 0

RECURSIVE RSum(_)
RSum(s) == IF s = <<>> THEN Zero ELSE RAdd(RSum(SubSeq(s, 1, Len(s) - 1)), s[Len(s)])

-----------------------------------------------------------------------------
(* Dates *)

Year(d) == d \div 10000
Month0(d) == ((d \div 100) % 100) - 1
Day(d) == d % 100

\* new Date("YYYY-MM-DD") is UTC midnight; getMonth()/getFullYear() read it in
\* local time, which west of UTC is still the evening of the previous day.
LocalMonth(d, zone) ==
    IF zone = "west" /\ Day(d) = 1 THEN (Month0(d) + 11) % 12 ELSE Month0(d)

LocalYear(d, zone) ==
    IF zone = "west" /\ Day(d) = 1 /\ Month0(d) = 0 THEN Year(d) - 1 ELSE Year(d)

-----------------------------------------------------------------------------
(* Map<string, number>: a sequence of <<date, value>> in insertion order *)

\* undefined where a number is expected (no rational has denominator 0)
Undefined == <<0, 0>>

Keys(data) == [k \in 1..Len(data) |-> data[k][1]]
KeySet(data) == {data[k][1] : k \in 1..Len(data)}

\* Map.get
Get(data, date) ==
    IF date \in KeySet(data)
    THEN R(data[CHOOSE k \in 1..Len(data) : data[k][1] = date][2])
    ELSE Undefined

\* Array.from(data.entries()).find(([d]) => d >= date)?.[1]
FindFrom(data, date) ==
    LET hits == {k \in 1..Len(data) : data[k][1] >= date}
    IN  IF hits = {} THEN Undefined
        ELSE R(data[CHOOSE k \in hits : \A h \in hits : k <= h][2])

-----------------------------------------------------------------------------
(* The series the model draws strategy and benchmark data from *)

\* the canonical date string y-m-d
Date(y, m, d) == y * 10000 + m * 100 + d

Jan16y23 == Date(2023, 1, 16)
Dec29 == Date(2023, 12, 29)
Jan02 == Date(2024, 1, 2)
Feb01 == Date(2024, 2, 1)
Mar15 == Date(2024, 3, 15)
Apr01 == Date(2024, 4, 1)
May13 == Date(2024, 5, 13)

\* day-over-day returns +10%, -10%, +10%
SerA == << <<Jan02, 1000>>, <<Feb01, 1100>>, <<Mar15, 990>>, <<Apr01, 1089>> >>
\* flat
SerB == << <<Jan02, 500>>, <<Feb01, 500>>, <<Mar15, 500>>, <<Apr01, 500>> >>
\* sparse: a year apart in the same month, then skipping the first month of a quarter
SerGap == << <<Jan16y23, 10>>, <<Jan02, 20>>, <<Mar15, 10>>, <<May13, 30>> >>
\* rows of the file not in chronological order
SerUnsorted == << <<Mar15, 30>>, <<Dec29, 10>>, <<Feb01, 20>>, <<Apr01, 60>> >>
\* a zero price on its first date
SerZero == << <<Feb01, 0>>, <<Mar15, 10>>, <<Apr01, 20>> >>

Library == <<SerA, SerB, SerGap, SerUnsorted, SerZero>>

Policies == {"daily", "monthly", "quarterly", "annually", "none"}
\* the weights a run is made with
AllocValues == {0, 50, 100}
\* the positions the sliders are moved to
SliderValues == {0, 50}
Balances == {0, 100000}
Zones == {"utc", "west"}

-----------------------------------------------------------------------------
(* parsedTimeline (useMemo) *)

\* allocations[id] || 0
Alloc(a, id) == IF id \in DOMAIN a THEN a[id] ELSE 0

\* mutant: the allocation filter is missing
TimelineActiveAll(strats, allocs) == 1..Len(strats)

\* the strategies the timeline is built from: (allocations[s.id] || 0) > 0
TimelineActive(strats, allocs) ==
    {k \in 1..Len(strats) : Alloc(allocs, strats[k].id) > 0}

\* const firstDate = dates[0]: the first key in insertion order
FirstDate(data) == data[1][1]

\* maxStartDate after the forEach; '' (below every date string) is 0
MaxStartDate(strats, allocs) ==
    LET firsts == {FirstDate(strats[k].data) :
                     k \in {a \in TimelineActive(strats, allocs) : Len(strats[a].data) > 0}}
    IN  IF firsts = {} THEN 0 ELSE CHOOSE m \in firsts : \A f \in firsts : f <= m

\* allDatesSet after the forEach
AllDatesSet(strats, allocs) ==
    UNION {KeySet(strats[k].data) : k \in TimelineActive(strats, allocs)}

\* Array.prototype.sort() on canonical date strings
RECURSIVE SortDates(_)
SortDates(S) ==
    IF S = {} THEN <<>>
    ELSE LET m == CHOOSE x \in S : \A y \in S : x <= y
         IN  <<m>> \o SortDates(S \ {m})

TimelinePoint(date, zone) ==
    [date |-> date, month |-> LocalMonth(date, zone), year |-> LocalYear(date, zone)]

ParsedTimeline(isLoading, strats, allocs, zone) ==
    IF isLoading \/ Len(strats) = 0 THEN <<>>
    ELSE LET kept == {d \in AllDatesSet(strats, allocs) : d >= MaxStartDate(strats, allocs)}
             sorted == SortDates(kept)
         IN  [k \in 1..Len(sorted) |-> TimelinePoint(sorted[k], zone)]

-----------------------------------------------------------------------------
(* simulation (useMemo): the state of its loop *)

\* Object.keys(deferredAllocations).filter(id => (deferredAllocations[id] || 0) > 0)
ActiveIds(dalloc) == {id \in DOMAIN dalloc : dalloc[id] > 0}

\* strategies.filter(s => activeIds.includes(s.id))
RECURSIVE ActiveStrategies(_, _)
ActiveStrategies(strats, dalloc) ==
    IF strats = <<>> THEN <<>>
    ELSE LET rest == ActiveStrategies(Tail(strats), dalloc)
         IN  IF Head(strats).id \in ActiveIds(dalloc) THEN <<Head(strats)>> \o rest ELSE rest

\* mutant: the percentage is taken as the weight
StrategyWeightPercent(dalloc, id) == R(Alloc(dalloc, id))

\* (deferredAllocations[s.id] || 0) / 100
StrategyWeight(dalloc, id) == Rat(Alloc(dalloc, id), 100)

\* p || 1 after the two lookups
InitialPrice(data, date0) ==
    LET p0 == Get(data, date0)
        p == IF p0 = Undefined THEN FindFrom(data, date0) ELSE p0
    IN  IF p = Undefined \/ p = Zero THEN One ELSE p

\* spyData?.get(t0) || (spyData ? find(d >= t0)?.[1] : 0) || 0
SpyStartPrice(spy, date0) ==
    LET p0 == IF spy.loaded THEN Get(spy.data, date0) ELSE Undefined
        p1 == IF p0 = Undefined \/ p0 = Zero
              THEN (IF spy.loaded THEN FindFrom(spy.data, date0) ELSE Zero)
              ELSE p0
    IN  IF p1 = Undefined THEN Zero ELSE p1

\* the guards of the memo: TRUE when it returns null
SimulationIsNull(isLoading, strats, dalloc, timeline) ==
    \/ isLoading
    \/ Len(strats) = 0
    \/ Len(timeline) < 2
    \/ ActiveIds(dalloc) = {}

\* the loop's variables before its first iteration (i = 1 in the code is i = 2 here:
\* sequences are 1-based)
SimStart(strats, dalloc, timeline, spy, startBalance) ==
    LET act == ActiveStrategies(strats, dalloc)
        n == Len(act)
        w == [j \in 1..n |-> StrategyWeight(dalloc, act[j].id)]
        tw == RSum(w)
        bal == [j \in 1..n |-> RMul(R(startBalance), w[j])]
        sp == SpyStartPrice(spy, timeline[1].date)
    IN  [ activeStrategies |-> act,
          strategyWeights |-> w,
          totalAllocatedWeight |-> tw,
          startBalance |-> R(startBalance),
          currentStratBalances |-> bal,
          currentCashBalance |-> RMul(R(startBalance), RSub(One, tw)),
          lastPrices |-> [j \in 1..n |-> InitialPrice(act[j].data, timeline[1].date)],
          combinedEquityIdx |-> <<R(startBalance)>>,
          twrEquityIdx |-> <<R(100)>>,
          strategyEquitiesIdx |-> [j \in 1..n |-> <<bal[j]>>],
          spyEquityIdx |-> IF RPos(sp) THEN <<R(startBalance)>> ELSE <<>>,
          spyLastPrice |-> IF RPos(sp) THEN sp ELSE Zero,
          spyFactor |-> IF RPos(sp) THEN RDiv(R(startBalance), sp) ELSE Zero,
          currentMonth |-> timeline[1].month,
          currentYear |-> timeline[1].year,
          shouldRebalance |-> FALSE,
          i |-> 2 ]

\* mutant: daily is decided like monthly
ShouldRebalanceDailyAsMonthly(freq, month, year, currentMonth, currentYear) ==
    CASE freq \in {"daily", "monthly"} -> month # currentMonth
      [] freq = "quarterly" -> month # currentMonth /\ month % 3 = 0
      [] freq = "annually" -> year # currentYear
      [] OTHER -> FALSE

\* the policy's decision for today
ShouldRebalance(freq, month, year, currentMonth, currentYear) ==
    CASE freq = "daily" -> TRUE
      [] freq = "monthly" -> month # currentMonth
      [] freq = "quarterly" -> month # currentMonth /\ month % 3 = 0
      [] freq = "annually" -> year # currentYear
      [] OTHER -> FALSE

\* mutant: a missing price is read as 1
CurrPriceOrOne(data, date, last) ==
    IF Get(data, date) = Undefined THEN One ELSE Get(data, date)

\* const currPrice = s.data.get(date) ?? lastPrices[j]
CurrPrice(data, date, last) ==
    IF Get(data, date) = Undefined THEN last ELSE Get(data, date)

\* mutant: the return is taken over the current price
DailyRetOverCurrent(curr, last) ==
    IF RPos(last) /\ RPos(curr) THEN RDiv(RSub(curr, last), curr) ELSE Zero

\* lastPrices[j] > 0 ? (currPrice - lastPrices[j]) / lastPrices[j] : 0
DailyRet(curr, last) == IF RPos(last) THEN RDiv(RSub(curr, last), last) ELSE Zero

\* mutant: the reset is applied whatever the decision
RebalancedAlways(doIt, total, weights, drifted) ==
    [j \in DOMAIN drifted |-> RMul(total, weights[j])]

\* the balances after the rebalance branch
Rebalanced(doIt, total, weights, drifted) ==
    IF doIt THEN [j \in DOMAIN drifted |-> RMul(total, weights[j])] ELSE drifted

\* mutant: the rebalance leaves cash as it was
RebalancedCashKept(doIt, total, totalWeight, cash) == cash

\* the cash after the rebalance branch
RebalancedCash(doIt, total, totalWeight, cash) ==
    IF doIt THEN RMul(total, RSub(One, totalWeight)) ELSE cash

\* mutant: the marker is never moved
MarkerKept(current, value) == current

\* if (month !== currentMonth) currentMonth = month (and the same for the year)
NextMarker(current, value) == IF value # current THEN value ELSE current

\* one iteration of the for loop over the timeline
SimDay(s, timeline, freq, spy) ==
    LET pt == timeline[s.i]
        n == Len(s.activeStrategies)
        prevTotalBalance == s.combinedEquityIdx[s.i - 1]
        curr == [j \in 1..n |-> CurrPrice(s.activeStrategies[j].data, pt.date, s.lastPrices[j])]
        ret == [j \in 1..n |-> DailyRet(curr[j], s.lastPrices[j])]
        drifted == [j \in 1..n |-> RMul(s.currentStratBalances[j], RAdd(One, ret[j]))]
        dailyTotalStrategies == RSum(drifted)
        dailyTotalBeforeFlows == RAdd(dailyTotalStrategies, s.currentCashBalance)
        portfolioDailyRet ==
            IF RPos(prevTotalBalance)
            THEN RDiv(RSub(dailyTotalBeforeFlows, prevTotalBalance), prevTotalBalance)
            ELSE Zero
        doIt == ShouldRebalance(freq, pt.month, pt.year, s.currentMonth, s.currentYear)
        sPrice == IF spy.loaded THEN Get(spy.data, pt.date) ELSE Undefined
        spyLast == IF sPrice # Undefined THEN sPrice ELSE s.spyLastPrice
    IN  [ s EXCEPT
          !.lastPrices = curr,
          !.currentStratBalances =
              Rebalanced(doIt, dailyTotalBeforeFlows, s.strategyWeights, drifted),
          !.currentCashBalance =
              RebalancedCash(doIt, dailyTotalBeforeFlows, s.totalAllocatedWeight,
                             s.currentCashBalance),
          !.combinedEquityIdx = Append(@, dailyTotalBeforeFlows),
          !.twrEquityIdx = Append(@, RMul(@[s.i - 1], RAdd(One, portfolioDailyRet))),
          !.strategyEquitiesIdx =
              [j \in 1..n |-> Append(@[j], RMul(@[j][s.i - 1], RAdd(One, ret[j])))],
          !.spyEquityIdx = IF spy.loaded THEN Append(@, RMul(spyLast, s.spyFactor)) ELSE @,
          !.spyLastPrice = IF spy.loaded THEN spyLast ELSE @,
          !.currentMonth = NextMarker(@, pt.month),
          !.currentYear = NextMarker(@, pt.year),
          !.shouldRebalance = doIt,
          !.i = @ + 1 ]

-----------------------------------------------------------------------------
(* financeService: numbers that are not rationals, and calendar days *)

\* NaN, next to the rationals (whose denominator is positive) and to the infinities
\* <<1, 0>> and <<-1, 0>>
NaN == <<0, -1>>

\* Number.isFinite
IsFinite(x) == x[2] > 0

\* a / b as JavaScript divides finite numbers: x/0 is an infinity, 0/0 is NaN
JDiv(a, b) ==
    IF b # Zero THEN RDiv(a, b)
    ELSE IF a = Zero THEN NaN
    ELSE IF RPos(a) THEN <<1, 0>> ELSE <<-1, 0>>

\* a > b on finite numbers
RGt(a, b) == RPos(RSub(a, b))

RMax(a, b) == IF RGt(b, a) THEN b ELSE a

\* new Date("YYYY-MM-DD").getTime() / (1000 * 60 * 60 * 24): days since 1970-01-01
DayNumber(date) ==
    LET m == Month0(date) + 1
        y == IF m <= 2 THEN Year(date) - 1 ELSE Year(date)
        era == y \div 400
        yoe == y - era * 400
        doy == (153 * (IF m > 2 THEN m - 3 ELSE m + 9) + 2) \div 5 + Day(date) - 1
        doe == yoe * 365 + yoe \div 4 - yoe \div 100 + doy
    IN  era * 146097 + doe - 719468

\* gaps.sort((a, b) => a - b)
RECURSIVE SortGaps(_)
SortGaps(gaps) ==
    IF gaps = <<>> THEN <<>>
    ELSE LET least == CHOOSE k \in 1..Len(gaps) : \A j \in 1..Len(gaps) : gaps[k] <= gaps[j]
         IN  <<gaps[least]>> \o
             SortGaps([j \in 1..(Len(gaps) - 1) |-> IF j < least THEN gaps[j] ELSE gaps[j + 1]])

\* the gaps the loop pushes: the positive day differences of consecutive dates among
\* the first 100
RECURSIVE PushedGaps(_, _)
PushedGaps(dates, i) ==
    IF i > Len(dates) \/ i > 100 THEN <<>>
    ELSE LET diffDays == DayNumber(dates[i]) - DayNumber(dates[i - 1])
         IN  (IF diffDays > 0 THEN <<diffDays>> ELSE <<>>) \o PushedGaps(dates, i + 1)

detectAnnualizationFactor(dates) ==
    LET \* the thresholds of the classification
        FrequencyClass(medianGap) ==
            IF medianGap <= 5 THEN 252
            ELSE IF medianGap <= 12 THEN 52
            ELSE IF medianGap <= 45 THEN 12
            ELSE IF medianGap <= 120 THEN 4
            ELSE 1
        \* after gaps.sort: medianGap is gaps[Math.floor(gaps.length / 2)]
        OfSorted(gaps) ==
            IF gaps = <<>> THEN 252 ELSE FrequencyClass(gaps[(Len(gaps) \div 2) + 1])
    IN  IF Len(dates) < 3 THEN 252 ELSE OfSorted(SortGaps(PushedGaps(dates, 2)))

-----------------------------------------------------------------------------
(* Strings: sequences of one-character strings; a string that may be null or
   undefined is a record [null, s] *)

Str(s) == [null |-> FALSE, s |-> s]
NullString == [null |-> TRUE, s |-> <<>>]

Digits == <<"0", "1", "2", "3", "4", "5", "6", "7", "8", "9">>
IsDigit(c) == \E k \in 1..10 : Digits[k] = c

\* parseInt(s, 10) of a string of digits
RECURSIVE parseInt(_)
parseInt(s) ==
    IF s = <<>> THEN 0 ELSE parseInt(SubSeq(s, 1, Len(s) - 1)) * 10
                           + (CHOOSE k \in 1..10 : Digits[k] = s[Len(s)]) - 1

toLowerCase(s) ==
    LET upper == <<"A", "B", "C", "D", "E", "F", "G", "H", "I", "J", "K", "L", "M",
                   "N", "O", "P", "Q", "R", "S", "T", "U", "V", "W", "X", "Y", "Z">>
        lower == <<"a", "b", "c", "d", "e", "f", "g", "h", "i", "j", "k", "l", "m",
                   "n", "o", "p", "q", "r", "s", "t", "u", "v", "w", "x", "y", "z">>
    IN  [k \in 1..Len(s) |->
            IF \E j \in 1..26 : upper[j] = s[k]
            THEN lower[CHOOSE j \in 1..26 : upper[j] = s[k]]
            ELSE s[k]]

\* s.trim(): the spaces at both ends are dropped
RECURSIVE trim(_)
trim(s) ==
    IF s # <<>> /\ Head(s) = " " THEN trim(Tail(s))
    ELSE IF s # <<>> /\ s[Len(s)] = " " THEN trim(SubSeq(s, 1, Len(s) - 1))
    ELSE s

includes(s, sub) ==
    \E k \in 0..(Len(s) - Len(sub)) : SubSeq(s, k + 1, k + Len(sub)) = sub

\* s.padStart(2, '0')
padStart(s) == IF Len(s) < 2 THEN <<"0">> \o s ELSE s

\* s.split(sep) for a one-character separator
RECURSIVE split(_, _)
split(s, sep) ==
    IF \A k \in 1..Len(s) : s[k] # sep THEN <<s>>
    ELSE LET at == CHOOSE k \in 1..Len(s) : s[k] = sep /\ \A j \in 1..(k - 1) : s[j] # sep
         IN  <<SubSeq(s, 1, at - 1)>> \o split(SubSeq(s, at + 1, Len(s)), sep)

-----------------------------------------------------------------------------
(* financeService: normalizeDate and parseNumber *)

\* /^\d{4}-\d{2}-\d{2}$/
IsCanonical(s) ==
    /\ Len(s) = 10
    /\ s[5] = "-" /\ s[8] = "-"
    /\ \A k \in {1, 2, 3, 4, 6, 7, 9, 10} : IsDigit(s[k])

\* three groups of digits between two separators, with the given lengths of the third
Groups(s, sep, first, second, third) ==
    LET g == split(s, sep)
    IN  /\ Len(g) = 3
        /\ \A k \in 1..3 : \A j \in 1..Len(g[k]) : IsDigit(g[k][j])
        /\ Len(g[1]) \in first /\ Len(g[2]) \in second /\ Len(g[3]) \in third

\* what new Date(s) makes of a string that is no ISO date: implementation-defined, so an
\* outcome handed in by the caller: invalid, or the local year, month and day it read
InvalidDate == [valid |-> FALSE, year |-> 0, month |-> 0, day |-> 0]

normalizeDate(dateStr, parsed) ==
    LET s == trim(dateStr.s)
        mdy == split(s, "/")
        dmy == split(s, ".")
        \* String(n) of an integer n >= 0
        RECURSIVE String(_)
        String(n) ==
            IF n < 10 THEN <<Digits[n + 1]>>
            ELSE String(n \div 10) \o <<Digits[(n % 10) + 1]>>
    IN  IF dateStr.null THEN NullString
        ELSE IF IsCanonical(s) THEN Str(s)
        ELSE IF Groups(s, "/", {1, 2}, {1, 2}, {2, 3, 4})
             THEN Str((IF Len(mdy[3]) = 2
                       THEN (IF parseInt(mdy[3]) < 50 THEN <<"2", "0">> ELSE <<"1", "9">>)
                            \o mdy[3]
                       ELSE mdy[3])
                      \o <<"-">> \o padStart(mdy[1]) \o <<"-">> \o padStart(mdy[2]))
        ELSE IF Groups(s, ".", {1, 2}, {1, 2}, {4})
             THEN Str(dmy[3] \o <<"-">> \o padStart(dmy[2]) \o <<"-">> \o padStart(dmy[1]))
        ELSE IF ~parsed.valid THEN NullString
        ELSE Str(String(parsed.year) \o <<"-">> \o padStart(String(parsed.month))
                 \o <<"-">> \o padStart(String(parsed.day)))

\* the longest prefix of s that parseFloat reads: sign, digits, and a point with digits
\* (exponents and the word Infinity are not among the model's cells)
NumberPrefixLen(s) ==
    LET signed == s # <<>> /\ s[1] \in {"-", "+"}
        from == IF signed THEN 2 ELSE 1
        intEnd == CHOOSE e \in (from - 1)..Len(s) :
                     /\ \A k \in from..e : IsDigit(s[k])
                     /\ (e = Len(s) \/ ~IsDigit(s[e + 1]))
        fracEnd == IF intEnd < Len(s) /\ s[intEnd + 1] = "."
                   THEN CHOOSE e \in (intEnd + 1)..Len(s) :
                           /\ \A k \in (intEnd + 2)..e : IsDigit(s[k])
                           /\ (e = Len(s) \/ ~IsDigit(s[e + 1]))
                   ELSE intEnd
        digits == (intEnd - from + 1) + (IF fracEnd > intEnd THEN fracEnd - intEnd - 1 ELSE 0)
    IN  IF digits = 0 THEN 0 ELSE fracEnd

\* parseFloat(s)
parseFloat(s) ==
    LET len == NumberPrefixLen(s)
        negative == s[1] = "-"
        from == IF s[1] \in {"-", "+"} THEN 2 ELSE 1
        body == SubSeq(s, from, len)
        parts == split(body, ".")
        frac == IF Len(parts) > 1 THEN parts[2] ELSE <<>>
        RECURSIVE Pow10(_)
        Pow10(k) == IF k = 0 THEN 1 ELSE 10 * Pow10(k - 1)
        magnitude == Rat(parseInt(parts[1] \o frac), Pow10(Len(frac)))
    IN  IF len = 0 THEN NaN
        ELSE IF negative THEN RNeg(magnitude) ELSE magnitude

\* parseNumber of a CSV cell (always a string or undefined: dynamicTyping is off)
parseNumber(val) ==
    LET \* s.replace(/[$,]/g, '')
        stripMoney(s) == SelectSeq(s, LAMBDA c : c \notin {"$", ","})
    IN  IF val.null THEN NaN ELSE parseFloat(trim(stripMoney(val.s)))

-----------------------------------------------------------------------------
(* financeService: calculateStats *)

\* the entries of values whose key (at the same index) is key, in order
RECURSIVE Where(_, _, _)
Where(values, keys, key) ==
    IF values = <<>> THEN <<>>
    ELSE (IF Head(keys) = key THEN <<Head(values)>> ELSE <<>>)
         \o Where(Tail(values), Tail(keys), key)

\* mutant: the return is taken over the current value
DailyReturnsOverCurrent(equityCurve) ==
    [k \in 1..(Len(equityCurve) - 1) |->
        IF RPos(equityCurve[k + 1])
        THEN RDiv(RSub(equityCurve[k + 1], equityCurve[k]), equityCurve[k + 1])
        ELSE Zero]

\* dailyReturns after the loop over the curve: prev > 0 ? (curr - prev) / prev : 0
DailyReturns(equityCurve) ==
    [k \in 1..(Len(equityCurve) - 1) |->
        IF RPos(equityCurve[k])
        THEN RDiv(RSub(equityCurve[k + 1], equityCurve[k]), equityCurve[k])
        ELSE Zero]

\* rets.reduce((acc, r) => acc * (1 + r), 1) - 1; an undefined entry makes it NaN
RECURSIVE GeometricReturn(_)
GeometricReturn(rets) ==
    IF \E k \in 1..Len(rets) : rets[k] = Undefined THEN NaN
    ELSE IF rets = <<>> THEN Zero
    ELSE RSub(RMul(RAdd(One, GeometricReturn(SubSeq(rets, 1, Len(rets) - 1))),
                   RAdd(One, rets[Len(rets)])),
              One)

\* the peak/drawdown loop from its state (peak, maxDD); hasPeak = FALSE is peak = -Infinity.
\* An undefined value passes no comparison and changes nothing.
RECURSIVE DrawdownLoop(_, _, _, _)
DrawdownLoop(values, hasPeak, peak, maxDD) ==
    IF values = <<>> THEN maxDD
    ELSE IF Head(values) = Undefined THEN DrawdownLoop(Tail(values), hasPeak, peak, maxDD)
    ELSE LET v == Head(values)
             newPeak == IF ~hasPeak \/ RGt(v, peak) THEN v ELSE peak
             dd == IF RPos(newPeak) THEN RDiv(RSub(newPeak, v), newPeak) ELSE Zero
         IN  DrawdownLoop(Tail(values), TRUE, newPeak, RMax(maxDD, dd))

\* mutant: the peak is not restarted, it is the largest value of the whole list
MaxDrawdownFromHighest(values) ==
    LET known == {k \in 1..Len(values) : values[k] # Undefined}
        top == CHOOSE k \in known : \A h \in known : ~RGt(values[h], values[k])
    IN  IF known = {} THEN Zero
        ELSE DrawdownLoop(values, TRUE, values[top], Zero)

MaxDrawdown(values) == DrawdownLoop(values, FALSE, Zero, Zero)

Range(f) == {f[k] : k \in DOMAIN f}

\* the record of the early return.  Three of its fields are not rationals in general and
\* are kept as the arguments they are computed from, with zero = TRUE for the literal 0
\* their guards return: cagr is Math.pow(lastValue / firstValue, 1 / years) - 1; sharpe and
\* sortino are (avgReturn / dev) * Math.sqrt(periodsPerYear), dev being a square root;
\* calmar is cagr / maxDrawdown.  {} is an object without keys.
ZeroStats ==
    [ cagr |-> [zero |-> TRUE, base |-> Zero, years |-> Zero],
      sharpe |-> [zero |-> TRUE, returns |-> <<>>, periods |-> 0],
      sortino |-> [zero |-> TRUE, returns |-> <<>>, periods |-> 0],
      maxDrawdown |-> Zero,
      calmar |-> [zero |-> TRUE, cagr |-> [zero |-> TRUE, base |-> Zero, years |-> Zero],
                  maxDrawdown |-> Zero],
      totalReturn |-> Zero, finalBalance |-> Zero, bestYear |-> Zero, worstYear |-> Zero,
      annualReturns |-> [k \in {} |-> Zero], monthlyReturns |-> [k \in {} |-> Zero],
      annualMaxDrawdowns |-> [k \in {} |-> Zero] ]

\* firstValue > 0 ? Math.pow(lastValue / firstValue, 1 / years) - 1 : 0
Cagr(firstValue, lastValue, years) ==
    IF RPos(firstValue)
    THEN [zero |-> FALSE, base |-> RDiv(lastValue, firstValue), years |-> years]
    ELSE ZeroStats.cagr

\* stdDev > 0: more than one return, and the returns are not all equal (to their mean)
Sharpe(dailyReturns, periodsPerYear) ==
    IF /\ Len(dailyReturns) > 1
       /\ \E j, k \in 1..Len(dailyReturns) : dailyReturns[j] # dailyReturns[k]
    THEN [zero |-> FALSE, returns |-> dailyReturns, periods |-> periodsPerYear]
    ELSE ZeroStats.sharpe

\* downsideStdDev > 0: some return is negative (without one it is the NaN of 0 / 0)
Sortino(dailyReturns, periodsPerYear) ==
    IF \E k \in 1..Len(dailyReturns) : dailyReturns[k][1] < 0
    THEN [zero |-> FALSE, returns |-> dailyReturns, periods |-> periodsPerYear]
    ELSE ZeroStats.sortino

\* maxDrawdown > 0 ? cagr / maxDrawdown : 0
Calmar(cagr, maxDrawdown) ==
    IF RPos(maxDrawdown) THEN [zero |-> FALSE, cagr |-> cagr, maxDrawdown |-> maxDrawdown]
    ELSE ZeroStats.calmar

\* the call's outcome: threw = TRUE is the TypeError of dates[i].split on an undefined
\* dates[i]; otherwise stats is the record returned
calculateStats(equityCurve, dates) ==
    LET n == Len(equityCurve)
        \* seq[k], undefined outside the array
        Elem(seq, k) == IF k \in 1..Len(seq) THEN seq[k] ELSE Undefined
        periodsPerYear == detectAnnualizationFactor(dates)
        dailyReturns == DailyReturns(equityCurve)
        monthKey == [k \in 1..(n - 1) |-> <<Year(dates[k + 1]), Month0(dates[k + 1])>>]
        yearOfValue == [k \in 1..Len(dates) |-> Year(dates[k])]
        valueAt == [k \in 1..Len(dates) |-> Elem(equityCurve, k)]
        yearOfRet == [k \in 1..(Len(dates) - 1) |-> Year(dates[k + 1])]
        retAt == [k \in 1..(Len(dates) - 1) |-> Elem(dailyReturns, k)]
        annualReturns ==
            [y \in Range(yearOfRet) |-> GeometricReturn(Where(retAt, yearOfRet, y))]
        firstValue == equityCurve[1]
        lastValue == equityCurve[n]
        years == RMax(Rat(n - 1, periodsPerYear), Rat(1, 10))
        cagr == Cagr(firstValue, lastValue, years)
        maxDrawdown == MaxDrawdown(equityCurve)
        \* Math.max(...values) and Math.min(...values): NaN as soon as one value is NaN
        MathMax(S) == IF NaN \in S THEN NaN ELSE CHOOSE x \in S : \A y \in S : ~RGt(y, x)
        MathMin(S) == IF NaN \in S THEN NaN ELSE CHOOSE x \in S : \A y \in S : ~RGt(x, y)
    IN  IF n < 2 THEN [threw |-> FALSE, stats |-> ZeroStats]
        ELSE IF Len(dates) < n THEN [threw |-> TRUE]
        ELSE [ threw |-> FALSE,
               stats |->
                 [ cagr |-> cagr,
                   sharpe |-> Sharpe(dailyReturns, periodsPerYear),
                   sortino |-> Sortino(dailyReturns, periodsPerYear),
                   maxDrawdown |-> maxDrawdown,
                   calmar |-> Calmar(cagr, maxDrawdown),
                   totalReturn |-> IF RPos(firstValue)
                                   THEN RDiv(RSub(lastValue, firstValue), firstValue)
                                   ELSE Zero,
                   finalBalance |-> lastValue,
                   bestYear |-> IF Range(annualReturns) = {} THEN Zero
                                ELSE MathMax(Range(annualReturns)),
                   worstYear |-> IF Range(annualReturns) = {} THEN Zero
                                 ELSE MathMin(Range(annualReturns)),
                   annualReturns |-> annualReturns,
                   monthlyReturns |->
                     [key \in Range(monthKey) |->
                        GeometricReturn(Where(dailyReturns, monthKey, key))],
                   annualMaxDrawdowns |->
                     [y \in Range(yearOfValue) |->
                        MaxDrawdown(Where(valueAt, yearOfValue, y))] ] ]

-----------------------------------------------------------------------------
(* financeService: calculatePairwiseCorrelation *)

\* the returns pushed for one series, in the order of the loop
RECURSIVE PushedReturns(_, _, _)
PushedReturns(series, indices, i) ==
    IF i > Len(series) THEN <<>>
    ELSE (IF i \in indices
          THEN <<RDiv(RSub(series[i], series[i - 1]), series[i - 1])>>
          ELSE <<>>)
         \o PushedReturns(series, indices, i + 1)

\* mutant: one pair of returns is enough
TooFewPairsOne(n) == n < 1

\* if (retA.length < 2) return null
TooFewPairs(n) == n < 2

\* sum(x * y) - sum(x) * sum(y) / n
CoMoment(x, y) ==
    RSub(RSum([k \in 1..Len(x) |-> RMul(x[k], y[k])]),
         RDiv(RMul(RSum(x), RSum(y)), R(Len(x))))

\* mutant: the product of the sums is not taken off
NumeratorRaw(retA, retB) == RSum([k \in 1..Len(retA) |-> RMul(retA[k], retB[k])])

\* num
Numerator(retA, retB) == CoMoment(retA, retB)

\* mutant: the denominator is the first series' variance alone
DenominatorSquaredOfFirst(retA, retB) == RMul(CoMoment(retA, retA), CoMoment(retA, retA))

\* the argument of Math.sqrt in den
DenominatorSquared(retA, retB) == RMul(CoMoment(retA, retA), CoMoment(retB, retB))

Sign(x) == IF x[1] > 0 THEN 1 ELSE IF x[1] < 0 THEN -1 ELSE 0

\* the results: null, or the number num / Math.sqrt(denSq), which is kept as its sign
\* and its square (a square root is not a rational in general)
CorrelationNull == [null |-> TRUE, sign |-> 0, square |-> Zero]
CorrelationZero == [null |-> FALSE, sign |-> 0, square |-> Zero]

calculatePairwiseCorrelation(mapA, mapB) ==
    LET \* Array.from(datesA).filter(d => datesB.has(d)).sort()
        intersection == SortDates(KeySet(mapA) \cap KeySet(mapB))
        seriesA == [k \in 1..Len(intersection) |-> Get(mapA, intersection[k])]
        seriesB == [k \in 1..Len(intersection) |-> Get(mapB, intersection[k])]
        \* the indices i of the loop at which a pair of returns is pushed
        indices == {i \in 2..Len(seriesA) : RPos(seriesA[i - 1]) /\ RPos(seriesB[i - 1])}
        retA == PushedReturns(seriesA, indices, 2)
        retB == PushedReturns(seriesB, indices, 2)
        num == Numerator(retA, retB)
        denSq == DenominatorSquared(retA, retB)
    IN  IF Len(intersection) < 2 THEN CorrelationNull
        ELSE IF TooFewPairs(Len(retA)) THEN CorrelationNull
        ELSE IF denSq = Zero THEN CorrelationZero
        ELSE [null |-> FALSE, sign |-> Sign(num), square |-> RDiv(RMul(num, num), denSq)]

-----------------------------------------------------------------------------
(* simulation (useMemo): what it returns after the loop *)

\* parsedTimeline.map(t => t.date)
DatesOnly(timeline) == [k \in 1..Len(timeline) |-> timeline[k].date]

\* stats: calculateStats of the TWR curve, then finalBalance and totalReturn overwritten
\* from the combined curve and the start balance
SimStats(s, timeline) ==
    LET stats == calculateStats(s.twrEquityIdx, DatesOnly(timeline)).stats
        finalBalance == s.combinedEquityIdx[Len(s.combinedEquityIdx)]
    IN  [stats EXCEPT !.finalBalance = finalBalance,
                      !.totalReturn = JDiv(RSub(finalBalance, s.startBalance), s.startBalance)]

\* the memo's result: the curves of the loop and the two stats records; spyStats is null
\* without a benchmark
SimResult(s, timeline, spy) ==
    s @@ [stats |-> SimStats(s, timeline),
          spyStats |-> IF spy.loaded
                       THEN calculateStats(s.spyEquityIdx, DatesOnly(timeline)).stats
                       ELSE [null |-> TRUE]]

-----------------------------------------------------------------------------
(* One run of the simulation memo, iteration by iteration *)

\* a benchmark with one timeline date missing (Mar 15)
SerSpy == << <<Dec29, 400>>, <<Jan02, 400>>, <<Feb01, 440>>, <<Apr01, 420>> >>
\* a benchmark file that ends before the timelines of 2024 begin
SerSpyEarly == << <<Jan16y23, 380>>, <<Dec29, 400>> >>
SpyNull == [loaded |-> FALSE, data |-> <<>>]
SpyChoices == {SpyNull, [loaded |-> TRUE, data |-> SerSpy]}

StrategyIds == <<"bi-0", "bi-1", "bi-2", "u-1", "u-2">>

\* the names of the built-in strategies, and of the files the uploads come from
StrategyNames ==
    << <<"A", "l", "p", "h", "a">>, <<"B", "e", "t", "a", " ", "O", "n", "e">>,
       <<"G", "a", "m", "m", "a">>, <<"m", "i", "n", "e">>, <<"m", "i", "n", "e">> >>

\* the state outside App's simulation: the URL, the file upload, the probe
rest == <<urlParams, effectDue, parsing, error, probe>>

NoParams == [strat |-> NullString, weights |-> NullString]
NoFile == [phase |-> "none"]
NoProbe == [fn |-> "none"]

\* no URL parameters, no file chosen, no function probed
RestIdle ==
    /\ urlParams = NoParams
    /\ effectDue = FALSE
    /\ parsing = NoFile
    /\ error = "null"
    /\ probe = NoProbe

\* the ids of the strategies, in the order of the list
IdsInOrder(strats) == [k \in 1..Len(strats) |-> strats[k].id]

\* the strategy lists a run starts from: up to MaxStrategies series of the library
RECURSIVE PickStrategies(_, _)
PickStrategies(ks, from) ==
    IF from > Len(Library) THEN <<>>
    ELSE IF from \in ks
         THEN <<[id |-> StrategyIds[from], name |-> StrategyNames[from],
                 isBuiltIn |-> from <= 3, data |-> Library[from]]>>
              \o PickStrategies(ks, from + 1)
         ELSE PickStrategies(ks, from + 1)

StrategyLists ==
    {PickStrategies(ks, 1) :
        ks \in {x \in SUBSET (1..Len(Library)) : Cardinality(x) \in 1..MaxStrategies}}

IdsOf(strats) == {strats[k].id : k \in 1..Len(strats)}

\* strategies.filter(s => (allocations[s.id] || 0) > 0), as passed to EquityChart
ChartStrategies(strats, allocs) == {strats[k].id : k \in TimelineActive(strats, allocs)}

NoSim == [i |-> 0]

SimInit ==
    /\ loading = FALSE
    /\ strategies \in StrategyLists
    /\ allocations \in [IdsOf(strategies) -> SliderValues]
    /\ deferredAllocations \in [IdsOf(strategies) -> AllocValues]
    /\ initialBalance \in Balances
    /\ rebalanceFreq \in Policies
    /\ spyData \in SpyChoices \cup {[loaded |-> TRUE, data |-> SerSpyEarly]}
    /\ tz \in Zones
    /\ parsedTimeline = <<>>
    /\ chartStrategies = {}
    /\ sim = NoSim
    /\ pc = "timeline"
    /\ uploads = 0
    /\ allocOrder = IdsInOrder(strategies)
    /\ RestIdle

state == <<loading, strategies, allocations, deferredAllocations, initialBalance,
           rebalanceFreq, spyData, tz, uploads, allocOrder, rest>>
inputs == <<state, parsedTimeline, chartStrategies>>

\* the parsedTimeline memo runs
BuildTimeline ==
    /\ pc = "timeline"
    /\ parsedTimeline' = ParsedTimeline(loading, strategies, allocations, tz)
    /\ pc' = "idle"
    /\ UNCHANGED <<state, sim, chartStrategies>>

\* the memo returns null at one of its guards
SimNull ==
    /\ pc = "idle"
    /\ SimulationIsNull(loading, strategies, deferredAllocations, parsedTimeline)
    /\ pc' = "null"
    /\ UNCHANGED <<sim, inputs>>

\* the memo passes its guards and initialises the loop
SimBegin ==
    /\ pc = "idle"
    /\ ~SimulationIsNull(loading, strategies, deferredAllocations, parsedTimeline)
    /\ sim' = SimStart(strategies, deferredAllocations, parsedTimeline, spyData, initialBalance)
    /\ pc' = "loop"
    /\ UNCHANGED inputs

\* one iteration of the loop
SimStep ==
    /\ pc = "loop"
    /\ sim.i <= Len(parsedTimeline)
    /\ sim' = SimDay(sim, parsedTimeline, rebalanceFreq, spyData)
    /\ UNCHANGED <<pc, inputs>>

\* the loop is over, the memo returns its result and the charts are rendered
SimReturn ==
    /\ pc = "loop"
    /\ sim.i > Len(parsedTimeline)
    /\ pc' = "done"
    /\ sim' = SimResult(sim, parsedTimeline, spyData)
    /\ chartStrategies' = ChartStrategies(strategies, allocations)
    /\ UNCHANGED <<state, parsedTimeline>>

SimNext == BuildTimeline \/ SimNull \/ SimBegin \/ SimStep \/ SimReturn

SimSpec == SimInit /\ [][SimNext]_vars

-----------------------------------------------------------------------------
(* The App component: its state, its handlers and its renders.  The session is
   one without URL parameters, and the key order of the allocations object,
   which none of these handlers reads, is followed in UiSpec only. *)

BuiltIns ==
    << [id |-> "bi-0", name |-> StrategyNames[1], isBuiltIn |-> TRUE, data |-> SerA],
       [id |-> "bi-1", name |-> StrategyNames[2], isBuiltIn |-> TRUE, data |-> SerB] >>

\* the series a user uploads
UploadLibrary == {SerGap, SerUnsorted, SerZero}

EmptyAllocations == [id \in {} |-> 0]

\* {...prev, [id]: val}
SetKey(a, id, val) == [k \in DOMAIN a \cup {id} |-> IF k = id THEN val ELSE a[k]]

\* the key order of {...prev, [id]: val}: a new key goes last
SetKeyOrder(order, id) ==
    IF \E k \in 1..Len(order) : order[k] = id THEN order ELSE Append(order, id)

\* the key order after delete n[id]
DeleteKeyOrder(order, id) == SelectSeq(order, LAMBDA k : k # id)

\* const n = {...prev}; delete n[id]
DeleteKey(a, id) == [k \in DOMAIN a \ {id} |-> a[k]]

\* strategies.filter(s => s.id !== id)
RECURSIVE WithoutStrategy(_, _)
WithoutStrategy(strats, id) ==
    IF strats = <<>> THEN <<>>
    ELSE IF Head(strats).id = id THEN WithoutStrategy(Tail(strats), id)
         ELSE <<Head(strats)>> \o WithoutStrategy(Tail(strats), id)

\* the whole for loop
RECURSIVE RunSim(_, _, _, _)
RunSim(s, timeline, freq, spy) ==
    IF s.i > Len(timeline) THEN s ELSE RunSim(SimDay(s, timeline, freq, spy), timeline, freq, spy)

\* one render of App: both memos and the props of the charts
Render(isLoading, strats, allocs, dalloc, spy, balance, freq) ==
    LET timeline == ParsedTimeline(isLoading, strats, allocs, tz)
    IN  /\ parsedTimeline' = timeline
        /\ IF SimulationIsNull(isLoading, strats, dalloc, timeline)
           THEN /\ pc' = "null"
                /\ sim' = NoSim
                /\ chartStrategies' = {}
           ELSE /\ pc' = "done"
                /\ sim' = SimResult(RunSim(SimStart(strats, dalloc, timeline, spy, balance),
                                           timeline, freq, spy),
                                    timeline, spy)
                /\ chartStrategies' = ChartStrategies(strats, allocs)

Init ==
    /\ loading = TRUE
    /\ strategies = <<>>
    /\ allocations = EmptyAllocations
    /\ deferredAllocations = EmptyAllocations
    /\ initialBalance = 100000
    /\ rebalanceFreq = "monthly"
    /\ spyData = SpyNull
    /\ tz \in Zones
    /\ parsedTimeline = <<>>
    /\ sim = NoSim
    /\ pc = "null"
    /\ chartStrategies = {}
    /\ uploads = 0
    /\ allocOrder = <<>>
    /\ RestIdle

\* loadData: the built-in strategies and the benchmark arrive
LoadData ==
    /\ loading
    /\ loading' = FALSE
    /\ strategies' = BuiltIns
    /\ spyData' \in SpyChoices
    /\ Render(FALSE, strategies', allocations, deferredAllocations, spyData',
              initialBalance, rebalanceFreq)
    /\ UNCHANGED <<allocations, deferredAllocations, initialBalance, rebalanceFreq, tz, uploads,
                   allocOrder, rest>>

\* onAllocationChange: a slider moves; the urgent render keeps the old deferred value
AllocationChange ==
    /\ ~loading
    /\ \E id \in IdsOf(strategies), val \in SliderValues :
          /\ Alloc(allocations, id) # val
          /\ allocations' = SetKey(allocations, id, val)
    /\ Render(loading, strategies, allocations', deferredAllocations, spyData,
              initialBalance, rebalanceFreq)
    /\ UNCHANGED <<loading, strategies, deferredAllocations, initialBalance, rebalanceFreq,
                   spyData, tz, uploads, allocOrder, rest>>

\* handleUpload
Upload ==
    /\ ~loading
    /\ uploads < MaxUploads
    /\ uploads' = uploads + 1
    /\ \E data \in UploadLibrary :
          strategies' = Append(strategies,
              [id |-> StrategyIds[3 + uploads'], name |-> StrategyNames[3 + uploads'],
               isBuiltIn |-> FALSE, data |-> data])
    /\ allocations' = SetKey(allocations, StrategyIds[3 + uploads'], 0)
    /\ Render(loading, strategies', allocations', deferredAllocations, spyData,
              initialBalance, rebalanceFreq)
    /\ UNCHANGED <<loading, deferredAllocations, initialBalance, rebalanceFreq, spyData, tz, allocOrder, rest>>

\* onRemoveStrategy (the button exists for uploaded strategies only)
RemoveStrategy ==
    /\ \E k \in 1..Len(strategies) :
          /\ ~strategies[k].isBuiltIn
          /\ strategies' = WithoutStrategy(strategies, strategies[k].id)
          /\ allocations' = DeleteKey(allocations, strategies[k].id)
    /\ Render(loading, strategies', allocations', deferredAllocations, spyData,
              initialBalance, rebalanceFreq)
    /\ UNCHANGED <<loading, deferredAllocations, initialBalance, rebalanceFreq, spyData, tz,
                   uploads, allocOrder, rest>>

\* onReset
Reset ==
    /\ ~loading
    /\ allocations' = [id \in IdsOf(strategies) |-> 0]
    /\ allocations' # allocations
    /\ Render(loading, strategies, allocations', deferredAllocations, spyData,
              initialBalance, rebalanceFreq)
    /\ UNCHANGED <<loading, strategies, deferredAllocations, initialBalance, rebalanceFreq,
                   spyData, tz, uploads, allocOrder, rest>>

\* the background render React schedules for useDeferredValue completes
DeferredRender ==
    /\ deferredAllocations # allocations
    /\ deferredAllocations' = allocations
    /\ Render(loading, strategies, allocations, allocations, spyData,
              initialBalance, rebalanceFreq)
    /\ UNCHANGED <<loading, strategies, allocations, initialBalance, rebalanceFreq, spyData,
                   tz, uploads, allocOrder, rest>>

\* the frequency select changes, and its deferred value is taken up before the next event
SetRebalanceFreq ==
    /\ deferredAllocations = allocations
    /\ \E f \in Policies \ {rebalanceFreq} : rebalanceFreq' = f
    /\ Render(loading, strategies, allocations, deferredAllocations, spyData,
              initialBalance, rebalanceFreq')
    /\ UNCHANGED <<loading, strategies, allocations, deferredAllocations, initialBalance,
                   spyData, tz, uploads, allocOrder, rest>>

\* the starting balance input changes, and its deferred value is taken up likewise
SetInitialBalance ==
    /\ deferredAllocations = allocations
    /\ \E b \in Balances \ {initialBalance} : initialBalance' = b
    /\ Render(loading, strategies, allocations, deferredAllocations, spyData,
              initialBalance', rebalanceFreq)
    /\ UNCHANGED <<loading, strategies, allocations, deferredAllocations, rebalanceFreq,
                   spyData, tz, uploads, allocOrder, rest>>

Next ==
    \/ LoadData
    \/ AllocationChange
    \/ Upload
    \/ RemoveStrategy
    \/ Reset
    \/ DeferredRender
    \/ SetRebalanceFreq
    \/ SetInitialBalance

Spec == Init /\ [][Next]_vars

-----------------------------------------------------------------------------
(* The financeService functions called on their own: the arguments are drawn
   from small sets and the call's result is recorded in probe *)

\* Longest equity curve handed to calculateStats.
MaxCurveLen == 4

\* Longest series handed to calculatePairwiseCorrelation as its first argument.
MaxSeriesLen == 4

\* what the engine's Date parser may make of s: nothing without a digit; otherwise it is
\* either invalid or some date
EngineParses(s) ==
    IF \A k \in 1..Len(s) : ~IsDigit(s[k]) THEN {InvalidDate}
    ELSE {InvalidDate,
          [valid |-> TRUE, year |-> 2024, month |-> 1, day |-> 5],
          [valid |-> TRUE, year |-> 2001, month |-> 12, day |-> 31]}

\* the calls probed: the function and its arguments
Probes ==
    LET CurveValues == {R(-50), R(0), R(50), R(100), R(200)}
        Curves == UNION {[1..n -> CurveValues] : n \in 0..MaxCurveLen}
        StatDates == <<Jan16y23, Dec29, Jan02, Feb01, Mar15, Apr01, May13>>
        \* runs of consecutive dates that begin at one of the first three
        DateLists ==
            {w \in {SubSeq(StatDates, a, b) : a \in 1..3, b \in 0..Len(StatDates)} :
                Len(w) <= MaxCurveLen + 1}
        \* sorted distinct dates with gaps of 1, 7, 30, 91 and 366 days and their sums
        GapDates ==
            <<Date(2024, 1, 1), Date(2024, 1, 2), Date(2024, 1, 9), Date(2024, 2, 8),
              Date(2024, 5, 9), Date(2025, 5, 10)>>
        RECURSIVE SubLists(_)
        SubLists(q) ==
            IF q = <<>> THEN {<<>>}
            ELSE LET shorter == SubLists(Tail(q))
                 IN  shorter \cup {<<Head(q)>> \o r : r \in shorter}
        SeriesValues == {0, 50, 100, 200}
        SeriesDates == <<Jan02, Feb01, Mar15, Apr01, May13>>
        SeriesOver(values) == [k \in 1..Len(values) |-> <<SeriesDates[k], values[k]>>]
        FirstSeries ==
            {SeriesOver(v) : v \in UNION {[1..n -> SeriesValues] : n \in 0..MaxSeriesLen}}
        OtherSeries == {SerA, SerB, SerGap, SerUnsorted, SerZero}
        DayGroups == {<<"1">>, <<"0", "1">>, <<"1", "2">>}
        YearGroups ==
            {<<"3">>, <<"2", "4">>, <<"4", "9">>, <<"5", "0">>, <<"1", "2", "3">>,
             <<"2", "0", "2", "4">>}
        DateStrings ==
            {a \o <<sep>> \o b \o <<sep>> \o y :
                a \in DayGroups, b \in DayGroups, y \in YearGroups, sep \in {"/", ".", "-"}}
            \cup {y \o <<sep>> \o a \o <<sep>> \o b :
                a \in DayGroups, b \in DayGroups, y \in YearGroups, sep \in {"/", ".", "-"}}
            \cup {<<>>, <<"a", "b", "c">>, <<" ", "1", "/", "2", "/", "2", "4", " ">>}
        NumberCells ==
            {NullString, Str(<<>>), Str(<<"1", "0", "0">>),
             Str(<<"$", "1", ",", "0", "0", "0">>), Str(<<" ", "-", "5">>),
             Str(<<"1", ".", "5">>), Str(<<"1", "2", "a", "b">>), Str(<<"a", "b", "c">>),
             Str(<<"0">>), Str(<<".">>)}
    IN
    {[fn |-> "calculateStats", equityCurve |-> c, dates |-> d, called |-> FALSE, out |-> <<>>] :
        c \in Curves, d \in DateLists}
    \cup {[fn |-> "detectAnnualizationFactor", dates |-> d, called |-> FALSE, out |-> <<>>] :
        d \in SubLists(GapDates)}
    \cup {[fn |-> "calculatePairwiseCorrelation", mapA |-> a, mapB |-> b, called |-> FALSE,
           out |-> <<>>] : a \in FirstSeries, b \in OtherSeries}
    \cup {[fn |-> "calculatePairwiseCorrelation", mapA |-> a, mapB |-> a, called |-> FALSE,
           out |-> <<>>] : a \in FirstSeries \cup OtherSeries}
    \cup {[fn |-> "normalizeDate", dateStr |-> s, called |-> FALSE, out |-> <<>>] :
        s \in {Str(x) : x \in DateStrings} \cup {NullString}}
    \cup {[fn |-> "parseNumber", val |-> v, called |-> FALSE, out |-> <<>>] : v \in NumberCells}

FnInit ==
    /\ loading = TRUE
    /\ strategies = <<>>
    /\ allocations = EmptyAllocations
    /\ deferredAllocations = EmptyAllocations
    /\ initialBalance = 100000
    /\ rebalanceFreq = "monthly"
    /\ spyData = SpyNull
    /\ tz = "utc"
    /\ parsedTimeline = <<>>
    /\ sim = NoSim
    /\ pc = "null"
    /\ chartStrategies = {}
    /\ uploads = 0
    /\ allocOrder = <<>>
    /\ urlParams = NoParams
    /\ effectDue = FALSE
    /\ parsing = NoFile
    /\ error = "null"
    /\ probe \in Probes

Returned(fn, out) ==
    /\ probe.fn = fn
    /\ ~probe.called
    /\ probe' = [probe EXCEPT !.called = TRUE, !.out = out]
    /\ UNCHANGED <<loading, strategies, allocations, deferredAllocations, initialBalance,
                   rebalanceFreq, spyData, tz, parsedTimeline, sim, pc, chartStrategies,
                   uploads, allocOrder, urlParams, effectDue, parsing, error>>

CallCalculateStats ==
    Returned("calculateStats", calculateStats(probe.equityCurve, probe.dates))

CallDetectAnnualizationFactor ==
    Returned("detectAnnualizationFactor", detectAnnualizationFactor(probe.dates))

CallCalculatePairwiseCorrelation ==
    Returned("calculatePairwiseCorrelation",
             calculatePairwiseCorrelation(probe.mapA, probe.mapB))

CallNormalizeDate ==
    /\ probe.fn = "normalizeDate"
    /\ \E parsed \in EngineParses(trim(probe.dateStr.s)) :
          Returned("normalizeDate", normalizeDate(probe.dateStr, parsed))

CallParseNumber == Returned("parseNumber", parseNumber(probe.val))

FnNext ==
    \/ CallCalculateStats
    \/ CallDetectAnnualizationFactor
    \/ CallCalculatePairwiseCorrelation
    \/ CallNormalizeDate
    \/ CallParseNumber

FnSpec == FnInit /\ [][FnNext]_vars

-----------------------------------------------------------------------------
(* The pSEO effect: allocations from the URL parameters strat and weights *)

\* decodeURIComponent: %20 is a space; the model's names hold no other escape
RECURSIVE decodeURIComponent(_)
decodeURIComponent(s) ==
    IF s = <<>> THEN <<>>
    ELSE IF Len(s) >= 3 /\ SubSeq(s, 1, 3) = <<"%", "2", "0">>
         THEN <<" ">> \o decodeURIComponent(SubSeq(s, 4, Len(s)))
         ELSE <<Head(s)>> \o decodeURIComponent(Tail(s))

\* Number(s): 0 for the empty string, NaN unless the whole string is a number
Number(s) ==
    IF trim(s) = <<>> THEN Zero
    ELSE IF NumberPrefixLen(trim(s)) = Len(trim(s)) THEN parseFloat(trim(s))
    ELSE NaN

\* newAllocations after the forEach over stratNames[idx..]: the object and its key order.
\* A weight is stored as the whole number it is (the model's URLs hold no fractions).
RECURSIVE NewAllocations(_, _, _, _, _)
NewAllocations(strats, stratNames, weightValues, idx, acc) ==
    IF idx > Len(stratNames) THEN acc
    ELSE LET \* strategies.find(s => s.name.toLowerCase() === name): its index, 0 when none
             hits == {k \in 1..Len(strats) : toLowerCase(strats[k].name) = stratNames[idx]}
             found == IF hits = {} THEN 0 ELSE CHOOSE k \in hits : \A h \in hits : k <= h
             weight == IF idx <= Len(weightValues) THEN weightValues[idx] ELSE Undefined
         IN  IF found # 0 /\ weight # Undefined /\ weight # NaN
             THEN NewAllocations(strats, stratNames, weightValues, idx + 1,
                      [a |-> SetKey(acc.a, strats[found].id, weight[1]),
                       order |-> SetKeyOrder(acc.order, strats[found].id)])
             ELSE NewAllocations(strats, stratNames, weightValues, idx + 1, acc)

\* the allocations the effect sets, as [a, order]; those it was given when it sets none
UrlAllocations(isLoading, strats, params, allocs, order) ==
    LET stratNames == [k \in 1..Len(split(params.strat.s, ",")) |->
                          toLowerCase(decodeURIComponent(trim(split(params.strat.s, ",")[k])))]
        weightValues == [k \in 1..Len(split(params.weights.s, ",")) |->
                            Number(split(params.weights.s, ",")[k])]
        new == NewAllocations(strats, stratNames, weightValues, 1,
                              [a |-> EmptyAllocations, order |-> <<>>])
    IN  IF /\ ~isLoading /\ Len(strats) > 0
           /\ ~params.strat.null /\ params.strat.s # <<>>
           /\ ~params.weights.null /\ params.weights.s # <<>>
           /\ new.order # <<>>
        THEN new
        ELSE [a |-> allocs, order |-> order]

-----------------------------------------------------------------------------
(* onEqualWeight *)

\* Object.keys(allocations).filter(k => (allocations[k] || 0) > 0).length
ActiveCount(allocs, order) == Cardinality({k \in 1..Len(order) : allocs[order[k]] > 0})

EqualWeight(allocs, order) ==
    LET activeCount == ActiveCount(allocs, order)
        w == 100 \div activeCount
        \* next after the forEach over the keys from position k on, with rem as it is there
        RECURSIVE Equalized(_, _, _)
        Equalized(next, k, rem) ==
            IF k > Len(order) THEN next
            ELSE IF next[order[k]] > 0
                 THEN Equalized([next EXCEPT ![order[k]] = w + (IF rem > 0 THEN 1 ELSE 0)],
                                k + 1, rem - 1)
                 ELSE Equalized(next, k + 1, rem)
    IN  Equalized(allocs, 1, 100 - w * activeCount)

-----------------------------------------------------------------------------
(* FileUpload: processFile *)

\* keys.find(k => k.trim().toLowerCase().includes('date')): its index, 0 when none
DateKey(keys) ==
    LET hits == {k \in 1..Len(keys) :
                    includes(toLowerCase(trim(keys[k])), <<"d", "a", "t", "e">>)}
    IN  IF hits = {} THEN 0 ELSE CHOOSE k \in hits : \A h \in hits : k <= h

\* mutant: only a column named equity is taken
EquityKeyOnlyEquity(keys) ==
    LET hits == {k \in 1..Len(keys) :
                    includes(toLowerCase(trim(keys[k])), <<"e", "q", "u", "i", "t", "y">>)}
    IN  IF hits = {} THEN 0 ELSE CHOOSE k \in hits : \A h \in hits : k <= h

\* the same for 'equity', 'nav', 'close', 'balance'
EquityKey(keys) ==
    LET hits == {k \in 1..Len(keys) :
                    \/ includes(toLowerCase(trim(keys[k])), <<"e", "q", "u", "i", "t", "y">>)
                    \/ includes(toLowerCase(trim(keys[k])), <<"n", "a", "v">>)
                    \/ includes(toLowerCase(trim(keys[k])), <<"c", "l", "o", "s", "e">>)
                    \/ includes(toLowerCase(trim(keys[k])),
                                <<"b", "a", "l", "a", "n", "c", "e">>)}
    IN  IF hits = {} THEN 0 ELSE CHOOSE k \in hits : \A h \in hits : k <= h

\* row[key]: undefined for a row that is too short
Cell(row, key) == IF key \in 1..Len(row) THEN Str(row[key]) ELSE NullString

\* the engine's reading of a string that reaches new Date(s), given the one it may choose
EngineParse(s, parsed) == IF parsed \in EngineParses(s) THEN parsed ELSE InvalidDate

\* what Papa.parse's callbacks do with a file: the error they set ("null": none), and
\* the name and data they hand to onDataLoaded
processFile(file, parsed) ==
    LET keys == SubSeq(file.header, 1, Len(file.rows[1]))
        \* d and val of row k
        Read(k, dateKey, equityKey) ==
            LET cell == Cell(file.rows[k], dateKey)
            IN  [d |-> normalizeDate(cell, EngineParse(trim(cell.s), parsed)),
                 val |-> parseNumber(Cell(file.rows[k], equityKey))]
        \* if (d && !isNaN(val))
        Valid(r) == ~r.d.null /\ r.d.s # <<>> /\ r.val # NaN
        \* the model's Map key for a date string: the number its digits spell
        MapKey(s) == parseInt(SelectSeq(s, IsDigit))
        \* Map.set: a known key keeps its place
        MapSet(data, key, v) ==
            IF key \in KeySet(data)
            THEN [j \in 1..Len(data) |-> IF data[j][1] = key THEN <<key, v>> ELSE data[j]]
            ELSE Append(data, <<key, v>>)
        \* dataMap after rows.forEach from row k on (the model's cells hold whole numbers)
        RECURSIVE DataMap(_, _, _)
        DataMap(read, k, acc) ==
            IF k > Len(read) THEN acc
            ELSE DataMap(read, k + 1,
                         IF Valid(read[k]) THEN MapSet(acc, MapKey(read[k].d.s), read[k].val[1])
                         ELSE acc)
        \* file.name.replace(/\.[^/.]+$/, ""): the last extension is dropped
        dots == {k \in 1..Len(file.name) :
                    /\ file.name[k] = "."
                    /\ k < Len(file.name)
                    /\ \A j \in (k + 1)..Len(file.name) : file.name[j] \notin {".", "/"}}
        \* after rows.forEach: validRows > 0 ?
        AfterRows(read) ==
            IF \A k \in 1..Len(read) : ~Valid(read[k])
            THEN [error |-> "Check date format (YYYY-MM-DD) and equity values."]
            ELSE [error |-> "null",
                  name |-> IF dots = {} THEN file.name
                           ELSE SubSeq(file.name, 1, (CHOOSE k \in dots : TRUE) - 1),
                  data |-> DataMap(read, 1, <<>>)]
        WithKeys(dateKey, equityKey) ==
            IF dateKey = 0 \/ equityKey = 0
            THEN [error |-> "Missing 'Date' or 'Equity' columns."]
            ELSE AfterRows([k \in 1..Len(file.rows) |-> Read(k, dateKey, equityKey)])
    IN  IF ~file.readable THEN [error |-> "Error parsing CSV file."]
        ELSE IF Len(file.rows) = 0 THEN [error |-> "The file is empty."]
        ELSE WithKeys(DateKey(keys), EquityKey(keys))

-----------------------------------------------------------------------------
(* The state the handlers write, without the memos: strategies, allocations,
   the URL-parameter effect and the file upload *)

UrlChoices ==
    { NoParams,
      [strat |-> Str(<<"A", "l", "p", "h", "a", ",", "B", "e", "t", "a", "%", "2", "0",
                       "O", "n", "e">>),
       weights |-> Str(<<"5", "0", ",", "5", "0">>)],
      [strat |-> Str(<<"a", "l", "p", "h", "a">>), weights |-> Str(<<"1", "5", "0">>)],
      [strat |-> Str(<<"m", "i", "n", "e", ",", " ", "G", "a", "m", "m", "a">>),
       weights |-> Str(<<"6", "0">>)],
      [strat |-> Str(<<"B", "e", "t", "a", " ", "O", "n", "e", ",", "A", "l", "p", "h", "a">>),
       weights |-> Str(<<"-", "2", "0", ",", "a", "b", "c">>)] }

\* the files a user picks: well-formed, loosely headed with rows of all kinds, without
\* the columns, without a valid row, with a short first row, empty, and unreadable
FileLibrary ==
    LET CellJan02 == <<"2", "0", "2", "4", "-", "0", "1", "-", "0", "2">>
        CellFeb01 == <<"2", "/", "1", "/", "2", "4">>
        CellMar15 == <<"2", "0", "2", "4", "-", "3", "-", "1", "5">>
        CellNoDate == <<"a", "b", "c">>
        Cell100 == <<"1", "0", "0">>
        Cell1100 == <<"$", "1", ",", "1", "0", "0">>
        CellNoNumber == <<"n", "/", "a">>

        HeaderDateEquity == << <<"D", "a", "t", "e">>, <<"E", "q", "u", "i", "t", "y">> >>
        HeaderLoose == << <<" ", "T", "R", "A", "D", "E", " ", "D", "A", "T", "E">>,
                          <<"V", "o", "l">>, <<"A", "d", "j", " ", "C", "l", "o", "s", "e">> >>
        HeaderTimeValue == << <<"T", "i", "m", "e">>, <<"V", "a", "l", "u", "e">> >>

        FileMine == <<"m", "i", "n", "e", ".", "c", "s", "v">>
        FileOther == <<"o", "t", "h", "e", "r", ".", "v", "2", ".", "c", "s", "v">>
    IN
    { [name |-> FileMine, readable |-> TRUE, header |-> HeaderDateEquity,
       rows |-> << <<CellJan02, Cell100>>, <<CellFeb01, Cell1100>>, <<CellJan02, Cell1100>> >>],
      [name |-> FileOther, readable |-> TRUE, header |-> HeaderLoose,
       rows |-> << <<CellNoDate, Cell100, Cell100>>, <<CellMar15, Cell100, Cell1100>>,
                   <<CellJan02, Cell100, CellNoNumber>> >>],
      [name |-> FileOther, readable |-> TRUE, header |-> HeaderTimeValue,
       rows |-> << <<CellJan02, Cell100>> >>],
      [name |-> FileOther, readable |-> TRUE, header |-> HeaderDateEquity,
       rows |-> << <<CellNoDate, Cell100>>, <<CellJan02, CellNoNumber>>, <<CellFeb01>> >>],
      [name |-> FileOther, readable |-> TRUE, header |-> HeaderDateEquity,
       rows |-> << <<CellJan02>>, <<CellJan02, Cell100>> >>],
      [name |-> FileOther, readable |-> TRUE, header |-> HeaderDateEquity, rows |-> <<>>],
      [name |-> FileMine, readable |-> FALSE, header |-> HeaderDateEquity,
       rows |-> << <<CellJan02, Cell100>> >>] }

UiInit ==
    /\ loading = TRUE
    /\ strategies = <<>>
    /\ allocations = EmptyAllocations
    /\ deferredAllocations = EmptyAllocations
    /\ initialBalance = 100000
    /\ rebalanceFreq = "monthly"
    /\ spyData = SpyNull
    /\ tz = "utc"
    /\ parsedTimeline = <<>>
    /\ sim = NoSim
    /\ pc = "null"
    /\ chartStrategies = {}
    /\ uploads = 0
    /\ allocOrder = <<>>
    /\ urlParams \in UrlChoices
    /\ effectDue = FALSE
    /\ parsing = NoFile
    /\ error = "null"
    /\ probe = NoProbe

\* what no handler of this specification writes
memos == <<deferredAllocations, initialBalance, rebalanceFreq, spyData, tz, parsedTimeline,
           sim, pc, chartStrategies, probe, urlParams>>

\* loadData ends: setStrategies(loadedStrategies), setLoading(false)
loadData ==
    /\ loading
    /\ ~effectDue
    /\ loading' = FALSE
    /\ strategies' = BuiltIns
    /\ effectDue' = TRUE
    /\ UNCHANGED <<allocations, allocOrder, uploads, parsing, error, memos>>

\* the effect on [loading, strategies] runs after the render that changed them
urlEffect ==
    /\ effectDue
    /\ effectDue' = FALSE
    /\ allocations' =
          UrlAllocations(loading, strategies, urlParams, allocations, allocOrder).a
    /\ allocOrder' =
          UrlAllocations(loading, strategies, urlParams, allocations, allocOrder).order
    /\ UNCHANGED <<loading, strategies, uploads, parsing, error, memos>>

onAllocationChange ==
    /\ ~effectDue
    /\ \E id \in IdsOf(strategies), val \in SliderValues :
          /\ Alloc(allocations, id) # val
          /\ allocations' = SetKey(allocations, id, val)
          /\ allocOrder' = SetKeyOrder(allocOrder, id)
    /\ UNCHANGED <<loading, strategies, uploads, effectDue, parsing, error, memos>>

\* a file is picked: setError(null), and Papa.parse starts reading it; parsed is what
\* this browser's Date parser will make of the cells that reach it
handleFileChange ==
    /\ ~effectDue
    /\ parsing.phase # "reading"
    /\ uploads < MaxUploads
    /\ \E file \in FileLibrary :
          \E parsed \in {InvalidDate}
                         \cup UNION {EngineParses(file.rows[k][1]) : k \in 1..Len(file.rows)} :
             parsing' = [phase |-> "reading", file |-> file, parsed |-> parsed]
    /\ error' = "null"
    /\ UNCHANGED <<loading, strategies, allocations, allocOrder, uploads, effectDue, memos>>

\* Papa.parse calls complete or error: setError, or onDataLoaded = handleUpload
parseComplete ==
    /\ ~effectDue
    /\ parsing.phase = "reading"
    /\ parsing' = [parsing EXCEPT !.phase = "done"]
    /\ LET result == processFile(parsing.file, parsing.parsed)
           newId == StrategyIds[3 + uploads + 1]
       IN  IF result.error = "null"
           THEN /\ strategies' = Append(strategies,
                       [id |-> newId, name |-> result.name, isBuiltIn |-> FALSE,
                        data |-> result.data])
                /\ allocations' = SetKey(allocations, newId, 0)
                /\ allocOrder' = SetKeyOrder(allocOrder, newId)
                /\ uploads' = uploads + 1
                /\ effectDue' = TRUE
                /\ UNCHANGED error
           ELSE /\ error' = result.error
                /\ UNCHANGED <<strategies, allocations, allocOrder, uploads, effectDue>>
    /\ UNCHANGED <<loading, memos>>

\* the button that closes the error message
dismissError ==
    /\ error # "null"
    /\ error' = "null"
    /\ UNCHANGED <<loading, strategies, allocations, allocOrder, uploads, effectDue, parsing,
                   memos>>

onRemoveStrategy ==
    /\ ~effectDue
    /\ \E k \in 1..Len(strategies) :
          /\ ~strategies[k].isBuiltIn
          /\ strategies' = WithoutStrategy(strategies, strategies[k].id)
          /\ allocations' = DeleteKey(allocations, strategies[k].id)
          /\ allocOrder' = DeleteKeyOrder(allocOrder, strategies[k].id)
    /\ effectDue' = TRUE
    /\ UNCHANGED <<loading, uploads, parsing, error, memos>>

onReset ==
    /\ ~effectDue
    /\ allocations' = [id \in IdsOf(strategies) |-> 0]
    /\ allocOrder' = IdsInOrder(strategies)
    /\ <<allocations', allocOrder'>> # <<allocations, allocOrder>>
    /\ UNCHANGED <<loading, strategies, uploads, effectDue, parsing, error, memos>>

onEqualWeight ==
    /\ ~effectDue
    /\ ActiveCount(allocations, allocOrder) > 0
    /\ allocations' = EqualWeight(allocations, allocOrder)
    /\ allocations' # allocations
    /\ UNCHANGED <<loading, strategies, allocOrder, uploads, effectDue, parsing, error, memos>>

UiNext ==
    \/ loadData
    \/ urlEffect
    \/ onAllocationChange
    \/ handleFileChange
    \/ parseComplete
    \/ dismissError
    \/ onRemoveStrategy
    \/ onReset
    \/ onEqualWeight

UiSpec == UiInit /\ [][UiNext]_vars

-----------------------------------------------------------------------------
(* Properties of one simulation run (checked under SimSpec) *)

Running == pc \in {"loop", "done"}
Last(q) == q[Len(q)]
TimelineDates == {parsedTimeline[k].date : k \in 1..Len(parsedTimeline)}

\* the scenario of the specification's example: A with +10%, -10%, +10%, B flat, 50/50
ExampleScenario ==
    /\ Len(strategies) = 2
    /\ strategies[1].data = SerA
    /\ strategies[2].data = SerB
    /\ allocations = [id \in IdsOf(strategies) |-> 50]
    /\ deferredAllocations = allocations
    /\ initialBalance = 100000
    /\ rebalanceFreq = "daily"

\* C1: in the example scenario the combined curve is 100000, 105000, 99750, 104737.5;
\* the balances are 50000/50000 on day 0, 52500/52500 after the first day's rebalance
\* and 49875/49875 after the second; cash is 0 throughout.
C1_ExampleCurve ==
    ExampleScenario =>
        /\ pc = "loop" =>
              /\ sim.currentCashBalance = Zero
              /\ sim.i = 2 => sim.currentStratBalances = <<R(50000), R(50000)>>
              /\ sim.i = 3 => sim.currentStratBalances = <<R(52500), R(52500)>>
              /\ sim.i = 4 => sim.currentStratBalances = <<R(49875), R(49875)>>
        /\ pc = "done" =>
              /\ sim.combinedEquityIdx = <<R(100000), R(105000), R(99750), <<209475, 2>>>>
              /\ sim.currentCashBalance = Zero
        /\ pc # "null"

C1_Witness == ExampleScenario /\ pc = "done" /\ Len(sim.combinedEquityIdx) = 4

\* C2: the combined curve starts at the initial balance, and after every simulated day
\* its newest value is the sum of the strategy balances plus cash, rebalanced or not.
C2_CurveIsBalancesPlusCash ==
    Running =>
        /\ Len(sim.combinedEquityIdx) = sim.i - 1
        /\ sim.combinedEquityIdx[1] = R(initialBalance)
        /\ sim.i > 2 =>
              Last(sim.combinedEquityIdx) =
                  RAdd(RSum(sim.currentStratBalances), sim.currentCashBalance)

\* a day on which the total moved, a rebalance was applied and cash is held
C2_Witness ==
    /\ pc = "loop"
    /\ sim.i > 2
    /\ sim.shouldRebalance
    /\ Last(sim.combinedEquityIdx) # sim.combinedEquityIdx[sim.i - 2]
    /\ RPos(sim.currentCashBalance)

\* C3: under policy daily, after every simulated day each active strategy holds
\* total x weight and cash holds total x (1 - sum of weights).
C3_DailyTargets ==
    (Running /\ rebalanceFreq = "daily" /\ sim.i > 2) =>
        /\ \A j \in 1..Len(sim.activeStrategies) :
              sim.currentStratBalances[j] =
                  RMul(Last(sim.combinedEquityIdx), StrategyWeight(deferredAllocations,
                                                                   sim.activeStrategies[j].id))
        /\ sim.currentCashBalance =
              RMul(Last(sim.combinedEquityIdx), RSub(One, sim.totalAllocatedWeight))

\* a daily run with two strategies whose total moved that day (so the balances drifted)
C3_Witness ==
    /\ pc = "loop"
    /\ rebalanceFreq = "daily"
    /\ sim.i > 3
    /\ Len(sim.activeStrategies) = 2
    /\ Last(sim.combinedEquityIdx) # sim.combinedEquityIdx[sim.i - 2]

\* C4: under policy none every strategy's balance is its independent equity value, cash
\* is what it was at the start, and with weights summing to 1 the combined curve is the
\* sum of the independent curves at every index.
C4_NoneIsBuyAndHold ==
    (Running /\ rebalanceFreq = "none") =>
        /\ \A j \in 1..Len(sim.activeStrategies) :
              sim.currentStratBalances[j] = Last(sim.strategyEquitiesIdx[j])
        /\ sim.currentCashBalance =
              RMul(R(initialBalance), RSub(One, sim.totalAllocatedWeight))
        /\ sim.totalAllocatedWeight = One =>
              \A k \in 1..Len(sim.combinedEquityIdx) :
                  sim.combinedEquityIdx[k] =
                      RSum([j \in 1..Len(sim.activeStrategies) |-> sim.strategyEquitiesIdx[j][k]])

\* a finished run under none, two strategies at 50/50, crossing month, quarter and year
\* boundaries, whose total moved
C4_Witness ==
    /\ pc = "done"
    /\ rebalanceFreq = "none"
    /\ Len(sim.activeStrategies) = 2
    /\ sim.totalAllocatedWeight = One
    /\ Len(sim.combinedEquityIdx) >= 4
    /\ Last(sim.combinedEquityIdx) # sim.combinedEquityIdx[1]

\* the decision the policy prescribes for timeline point k, from the points k and k-1
Prescribed(freq, today, previous) ==
    \/ freq = "daily"
    \/ freq = "monthly" /\ today.month # previous.month
    \/ freq = "quarterly" /\ today.month # previous.month /\ today.month % 3 = 0
    \/ freq = "annually" /\ today.year # previous.year

PositivePrices(data) == \A k \in 1..Len(data) : data[k][2] > 0

\* C6: with every weight in [0,100] and positive prices, every strategy balance, the
\* cash balance and every value of the combined curve are >= 0 at every step.
C6_NonNegative ==
    (/\ Running
     /\ \A id \in DOMAIN deferredAllocations : deferredAllocations[id] \in 0..100
     /\ \A k \in 1..Len(strategies) : PositivePrices(strategies[k].data)) =>
        /\ \A j \in 1..Len(sim.activeStrategies) : RNonNeg(sim.currentStratBalances[j])
        /\ RNonNeg(sim.currentCashBalance)
        /\ \A k \in 1..Len(sim.combinedEquityIdx) : RNonNeg(sim.combinedEquityIdx[k])

-----------------------------------------------------------------------------
(* Properties of the master timeline (checked under SimSpec) *)

MinDate(data) == CHOOSE d \in KeySet(data) : \A e \in KeySet(data) : d <= e

\* the maximum, over the active strategies, of the chronologically earliest date
AnchorDate ==
    LET mins == {MinDate(strategies[k].data) : k \in TimelineActive(strategies, allocations)}
    IN  CHOOSE m \in mins : \A f \in mins : f <= m

\* C7: the anchor is the maximum over active strategies of each one's earliest date,
\* whatever the insertion order, and the timeline is exactly the active strategies'
\* dates from the anchor on.
C7_AnchorIsMaxOfMinimums ==
    (pc # "timeline" /\ TimelineActive(strategies, allocations) # {}) =>
        /\ MaxStartDate(strategies, allocations) = AnchorDate
        /\ TimelineDates = {d \in AllDatesSet(strategies, allocations) : d >= AnchorDate}

\* strategies.filter(s => allocations[s.id] > 0): the list without the inactive ones
RECURSIVE OnlyActive(_, _)
OnlyActive(strats, allocs) ==
    IF strats = <<>> THEN <<>>
    ELSE IF Alloc(allocs, Head(strats).id) > 0
         THEN <<Head(strats)>> \o OnlyActive(Tail(strats), allocs)
         ELSE OnlyActive(Tail(strats), allocs)

\* C8: the timeline is strictly increasing, each of its dates is a date of a strategy
\* with allocation > 0, and it is the timeline the active strategies alone would give:
\* zero-allocation strategies and the benchmark add no date and move no anchor.
C8_TimelineOfActiveOnly ==
    pc # "timeline" =>
        /\ \A k \in 1..(Len(parsedTimeline) - 1) :
              parsedTimeline[k].date < parsedTimeline[k + 1].date
        /\ \A d \in TimelineDates :
              \E k \in 1..Len(strategies) :
                  /\ Alloc(allocations, strategies[k].id) > 0
                  /\ d \in KeySet(strategies[k].data)
        /\ parsedTimeline =
              ParsedTimeline(loading, OnlyActive(strategies, allocations), allocations, tz)

\* a timeline of several dates, beside a zero-allocation strategy and a benchmark that
\* each have a date after the timeline's first one that the timeline lacks
C8_Witness ==
    /\ pc = "idle"
    /\ Len(parsedTimeline) >= 3
    /\ spyData.loaded
    /\ \E d \in KeySet(spyData.data) : d > parsedTimeline[1].date /\ d \notin TimelineDates
    /\ \E k \in 1..Len(strategies) :
          /\ Alloc(allocations, strategies[k].id) = 0
          /\ \E d \in KeySet(strategies[k].data) :
                d > parsedTimeline[1].date /\ d \notin TimelineDates

\* the nine numeric fields of a stats record are finite numbers
StatsAreFinite(stats) ==
    LET \* Math.pow of a negative base is NaN unless the exponent 1 / years is an integer
        CagrIsFinite(c) == c.zero \/ RNonNeg(c.base) \/ c.years[1] = 1
        \* a quotient of finite numbers by a positive square root
        RatioIsFinite(r) == r.zero \/ \A k \in 1..Len(r.returns) : IsFinite(r.returns[k])
        CalmarIsFinite(c) == c.zero \/ CagrIsFinite(c.cagr)
    IN
    /\ CagrIsFinite(stats.cagr)
    /\ RatioIsFinite(stats.sharpe)
    /\ RatioIsFinite(stats.sortino)
    /\ IsFinite(stats.maxDrawdown)
    /\ CalmarIsFinite(stats.calmar)
    /\ IsFinite(stats.totalReturn)
    /\ IsFinite(stats.finalBalance)
    /\ IsFinite(stats.bestYear)
    /\ IsFinite(stats.worstYear)

\* C11: every numeric field of the portfolio stats of a simulation that yields a result
\* (cagr, sharpe, sortino, maxDrawdown, calmar, totalReturn, finalBalance, bestYear,
\* worstYear) is finite, whatever the initial balance, the day-0 prices, the variance
\* and the drawdown; a degenerate division yields 0 (so totalReturn is 0 for balance 0).
C11_StatsFinite ==
    pc = "done" =>
        /\ StatsAreFinite(sim.stats)
        /\ initialBalance = 0 => sim.stats.totalReturn = Zero

-----------------------------------------------------------------------------
(* Properties of what App renders (checked under Spec) *)

\* C9: the simulation is null whenever the timeline has fewer than 2 points or no
\* strategy has allocation > 0, and whenever it yields a result at least one existing
\* strategy took part in it.
C9_NullOrSomeStrategy ==
    /\ (\/ Len(parsedTimeline) < 2
        \/ \A k \in 1..Len(strategies) : Alloc(allocations, strategies[k].id) <= 0)
          => pc = "null"
    /\ pc = "done" => Len(sim.activeStrategies) >= 1

\* C10: every rendered result comes from one snapshot: the strategies and weights of
\* the simulation loop are the active strategies of the timeline and of the charts.
C10_OneSnapshot ==
    pc = "done" =>
        /\ IdsOf(sim.activeStrategies) = chartStrategies
        /\ \A j \in 1..Len(sim.activeStrategies) :
              sim.strategyWeights[j] = Rat(Alloc(allocations, sim.activeStrategies[j].id), 100)

-----------------------------------------------------------------------------
(* Properties of the financeService functions (checked under FnSpec) *)

Called(fn) == probe.fn = fn /\ probe.called

\* C12: calculateStats returns the all-zero record with empty breakdowns, and does not
\* throw, for an equity curve of length 0 or 1 and for every input whose dates are empty
\* (an equity curve of length >= 2 with empty dates included).
C12_ZeroRecord ==
    (Called("calculateStats") /\ (Len(probe.equityCurve) < 2 \/ probe.dates = <<>>)) =>
        /\ ~probe.out.threw
        /\ probe.out.stats = ZeroStats

NonDecreasing(curve) == \A k \in 1..(Len(curve) - 1) : ~RGt(curve[k], curve[k + 1])

\* C13: for every equity curve of length >= 2 handed to calculateStats, maxDrawdown is in
\* [0, 1], and it is 0 exactly when the curve never decreases.
C13_DrawdownRange ==
    (Called("calculateStats") /\ Len(probe.equityCurve) >= 2 /\ ~probe.out.threw) =>
        /\ RNonNeg(probe.out.stats.maxDrawdown)
        /\ ~RGt(probe.out.stats.maxDrawdown, One)
        /\ probe.out.stats.maxDrawdown = Zero <=> NonDecreasing(probe.equityCurve)

\* twice the median of a list of numbers: the middle one, or the mean of the two middle ones
TwiceMedian(gaps) ==
    LET sorted == SortGaps(gaps)
        n == Len(gaps)
    IN  IF n % 2 = 1 THEN 2 * sorted[(n + 1) \div 2]
        ELSE sorted[n \div 2] + sorted[(n \div 2) + 1]

\* the frequency class of a median gap given as its double
ClassOfTwice(m2) ==
    IF m2 <= 10 THEN 252
    ELSE IF m2 <= 24 THEN 52
    ELSE IF m2 <= 90 THEN 12
    ELSE IF m2 <= 240 THEN 4
    ELSE 1

\* C17: detectAnnualizationFactor returns one of 252, 52, 12, 4, 1: 252 for fewer than 3
\* dates, otherwise the class of the median of the day-gaps between consecutive dates
\* (<= 5: 252, <= 12: 52, <= 45: 12, <= 120: 4, else 1), for gap lists of odd and of
\* even length.
C17_ClassOfMedian ==
    Called("detectAnnualizationFactor") =>
        /\ probe.out \in {252, 52, 12, 4, 1}
        /\ probe.out = IF Len(probe.dates) < 3 THEN 252
                       ELSE ClassOfTwice(TwiceMedian(PushedGaps(probe.dates, 2)))

\* the correlation 1
CorrelationOne == [null |-> FALSE, sign |-> 1, square |-> One]

\* the values of a series on the sorted dates it shares with another
OnShared(map, other) ==
    LET shared == SortDates(KeySet(map) \cap KeySet(other))
    IN  [k \in 1..Len(shared) |-> Get(map, shared[k])]

\* the simple returns of a where the previous values of both a and b are positive
RECURSIVE ReturnPairs(_, _)
ReturnPairs(a, b) ==
    IF Len(a) < 2 THEN <<>>
    ELSE ReturnPairs(SubSeq(a, 1, Len(a) - 1), SubSeq(b, 1, Len(b) - 1))
         \o (IF RPos(a[Len(a) - 1]) /\ RPos(b[Len(b) - 1])
             THEN <<RDiv(RSub(a[Len(a)], a[Len(a) - 1]), a[Len(a) - 1])>>
             ELSE <<>>)

Constant(x) == \A j, k \in 1..Len(x) : x[j] = x[k]

Mean(x) == RDiv(RSum(x), R(Len(x)))

\* sum of (x - mean x) * (y - mean y)
Centered(x, y) ==
    RSum([k \in 1..Len(x) |-> RMul(RSub(x[k], Mean(x)), RSub(y[k], Mean(y)))])

\* the Pearson coefficient of two return lists that are not constant
Pearson(x, y) ==
    [null |-> FALSE, sign |-> Sign(Centered(x, y)),
     square |-> RDiv(RMul(Centered(x, y), Centered(x, y)),
                     RMul(Centered(x, x), Centered(y, y)))]

SelfCall == Called("calculatePairwiseCorrelation") /\ probe.mapA = probe.mapB

\* C14 as stated: for every series with at least 2 points and at least one positive
\* value the correlation of the series with itself is 1.0, neither null nor 0.
C14_SelfIsOne ==
    (/\ SelfCall
     /\ Len(probe.mapA) >= 2
     /\ \E k \in 1..Len(probe.mapA) : probe.mapA[k][2] > 0)
        => probe.out = CorrelationOne

\* C14 amended: the correlation of a series with itself is 1.0 when the series has at
\* least two returns after a positive value and these returns are not all equal; it is
\* null with fewer than two such returns and 0 when they are all equal.
C14_SelfIsOneOnVaryingReturns ==
    SelfCall =>
        LET rets == ReturnPairs(OnShared(probe.mapA, probe.mapA),
                                OnShared(probe.mapA, probe.mapA))
        IN  probe.out = IF Len(rets) < 2 THEN CorrelationNull
                        ELSE IF Constant(rets) THEN CorrelationZero
                        ELSE CorrelationOne

\* a series with itself, three returns that differ and do not add up to 0: the result is 1
C14_Witness ==
    /\ SelfCall
    /\ Len(ReturnPairs(OnShared(probe.mapA, probe.mapA),
                       OnShared(probe.mapA, probe.mapA))) >= 3
    /\ RSum(ReturnPairs(OnShared(probe.mapA, probe.mapA),
                        OnShared(probe.mapA, probe.mapA))) # Zero
    /\ probe.out = CorrelationOne

\* C15: calculatePairwiseCorrelation(A, B) = calculatePairwiseCorrelation(B, A), the
\* results null and 0 included.
C15_Symmetric ==
    Called("calculatePairwiseCorrelation") =>
        probe.out = calculatePairwiseCorrelation(probe.mapB, probe.mapA)

\* two different series whose correlation is strictly between 0 and 1 in absolute value
C15_Witness ==
    /\ Called("calculatePairwiseCorrelation")
    /\ probe.mapA # probe.mapB
    /\ ~probe.out.null
    /\ probe.out.sign # 0
    /\ probe.out.square # One

\* C16: the result is null exactly when fewer than 2 return pairs exist on the sorted
\* intersection of the dates (a pair counts only where both previous values are
\* positive); otherwise it is 0 when one of the two return lists has zero variance and
\* the Pearson coefficient otherwise; it is never NaN.
C16_NullZeroOrPearson ==
    Called("calculatePairwiseCorrelation") =>
        LET a == OnShared(probe.mapA, probe.mapB)
            b == OnShared(probe.mapB, probe.mapA)
            x == ReturnPairs(a, b)
            y == ReturnPairs(b, a)
        IN  /\ probe.out.null <=> Len(x) < 2
            /\ ~probe.out.null =>
                  /\ probe.out = IF Constant(x) \/ Constant(y) THEN CorrelationZero
                                  ELSE Pearson(x, y)
                  /\ IsFinite(probe.out.square)

\* a result that is no null although a date of the intersection gave no pair, because a
\* previous value was not positive
C16_Witness ==
    /\ Called("calculatePairwiseCorrelation")
    /\ ~probe.out.null
    /\ probe.out.sign # 0
    /\ Len(ReturnPairs(OnShared(probe.mapA, probe.mapB), OnShared(probe.mapB, probe.mapA)))
          < Len(OnShared(probe.mapA, probe.mapB)) - 1

\* an input of the form M/D/YY
TwoDigitYear(s) == Groups(s, "/", {1, 2}, {1, 2}, {2})

\* C18: normalizeDate returns null or a string of the canonical shape YYYY-MM-DD (4-digit
\* year, 2-digit month and day); for an M/D/YY input the year is 20YY when YY < 50 and
\* 19YY otherwise; and a non-null output is mapped to itself.
C18_CanonicalOrNull ==
    Called("normalizeDate") =>
        /\ probe.out.null \/ IsCanonical(probe.out.s)
        /\ TwoDigitYear(trim(probe.dateStr.s)) =>
              LET yy == split(trim(probe.dateStr.s), "/")[3]
              IN  SubSeq(probe.out.s, 1, 4) =
                     (IF parseInt(yy) < 50 THEN <<"2", "0">> ELSE <<"1", "9">>) \o yy
        /\ ~probe.out.null =>
              \A parsed \in EngineParses(probe.out.s) :
                  normalizeDate(probe.out, parsed) = probe.out

-----------------------------------------------------------------------------
(* Properties of the handlers (checked under UiSpec) *)

\* the first column of the file's first row whose trimmed lower-case name contains one
\* of the words; 0 when there is none
ColumnNamed(file, words) ==
    LET named == {k \in 1..Len(file.rows[1]) :
                     \E w \in words : includes(toLowerCase(trim(file.header[k])), w)}
    IN  IF named = {} THEN 0 ELSE CHOOSE k \in named : \A j \in named : k <= j

DateWords == {<<"d", "a", "t", "e">>}
EquityWords ==
    {<<"e", "q", "u", "i", "t", "y">>, <<"n", "a", "v">>, <<"c", "l", "o", "s", "e">>,
     <<"b", "a", "l", "a", "n", "c", "e">>}

\* the rows with a parseable date and a finite value in the two recognized columns
GoodRows(file, parsed) ==
    {k \in 1..Len(file.rows) :
        LET date == Cell(file.rows[k], ColumnNamed(file, DateWords))
            value == Cell(file.rows[k], ColumnNamed(file, EquityWords))
        IN  /\ ~normalizeDate(date, EngineParse(trim(date.s), parsed)).null
            /\ IsFinite(parseNumber(value))}

\* the file can be read, has rows, both columns are recognized and some row is good
Usable(file, parsed) ==
    /\ file.readable
    /\ Len(file.rows) > 0
    /\ ColumnNamed(file, DateWords) # 0
    /\ ColumnNamed(file, EquityWords) # 0
    /\ GoodRows(file, parsed) # {}

C20_AllocationsInRange ==
    \A id \in DOMAIN allocations :
        /\ allocations[id] >= 0
        /\ allocations[id] <= 100
        /\ id \in IdsOf(strategies)


-----------------------------------------------------------------------------
(* Properties of the periods, the prices and the curves of one simulation run
   (checked under SimSpec) *)

\* the calendar quarter of a canonical date, counted from year 0
Quarter(d) == Year(d) * 4 + (Month0(d) \div 3)

\* the calendar month of a canonical date, counted from year 0
CalendarMonth(d) == Year(d) * 12 + Month0(d)

\* date today lies in another calendar period of the policy than date previous
NewPeriod(freq, today, previous) ==
    \/ freq = "monthly" /\ CalendarMonth(today) # CalendarMonth(previous)
    \/ freq = "quarterly" /\ Quarter(today) # Quarter(previous)
    \/ freq = "annually" /\ Year(today) # Year(previous)

\* every strategy balance is the day's total times the strategy's target weight
AtTargets ==
    \A j \in 1..Len(sim.activeStrategies) :
        sim.currentStratBalances[j] =
            RMul(Last(sim.combinedEquityIdx),
                 StrategyWeight(deferredAllocations, sim.activeStrategies[j].id))

\* C21: under monthly, quarterly or annually, on the first timeline date that lies in a
\* new calendar month, quarter or year (compared with the timeline date before it) every
\* strategy balance is reset to total x target weight, also on timelines with gaps.
C21_ResetOnNewPeriod ==
    (/\ Running
     /\ sim.i > 2
     /\ NewPeriod(rebalanceFreq, parsedTimeline[sim.i - 1].date, parsedTimeline[sim.i - 2].date))
        => AtTargets

\* the same where the engine runs in UTC and the two dates are in adjacent calendar
\* months: here the code's month and year comparison is the calendar's
C21_ResetWithoutGaps ==
    (/\ Running
     /\ sim.i > 2
     /\ tz = "utc"
     /\ CalendarMonth(parsedTimeline[sim.i - 1].date) =
            CalendarMonth(parsedTimeline[sim.i - 2].date) + 1
     /\ NewPeriod(rebalanceFreq, parsedTimeline[sim.i - 1].date, parsedTimeline[sim.i - 2].date))
        => AtTargets


\* active strategy j has a price on the timeline date of index k
HasPrice(j, k) == Get(sim.activeStrategies[j].data, parsedTimeline[k].date) # Undefined

\* the timeline indices up to k on which active strategy j has a price
ObservedUpTo(j, k) == {h \in 1..k : HasPrice(j, h)}

\* the price of active strategy j on the latest timeline date up to index k that has one
LastObserved(j, k) ==
    LET h == CHOOSE x \in ObservedUpTo(j, k) : \A y \in ObservedUpTo(j, k) : y <= x
    IN  Get(sim.activeStrategies[j].data, parsedTimeline[h].date)

\* the growth factor of active strategy j on the date about to be processed
DayFactor(j) ==
    IF HasPrice(j, sim.i)
    THEN RAdd(One, DailyRet(Get(sim.activeStrategies[j].data, parsedTimeline[sim.i].date),
                            sim.lastPrices[j]))
    ELSE One

\* C22: on a timeline date for which an active strategy has no price, its retained last
\* price and its independent equity value are unchanged and its balance enters the day's
\* total unchanged (and stays unchanged when the day has no rebalance); on the next date
\* with a price the return is taken against the last observed price.
C22_MissingPriceCarried ==
    [][(pc = "loop" /\ sim.i <= Len(parsedTimeline)) =>
          /\ \A j \in 1..Len(sim.activeStrategies) :
                /\ ~HasPrice(j, sim.i) =>
                      /\ sim'.lastPrices[j] = sim.lastPrices[j]
                      /\ Last(sim'.strategyEquitiesIdx[j]) = Last(sim.strategyEquitiesIdx[j])
                      /\ ~sim'.shouldRebalance =>
                            sim'.currentStratBalances[j] = sim.currentStratBalances[j]
                /\ (/\ HasPrice(j, sim.i)
                    /\ ObservedUpTo(j, sim.i - 1) # {}
                    /\ RPos(LastObserved(j, sim.i - 1))) =>
                      Last(sim'.strategyEquitiesIdx[j]) =
                          RMul(Last(sim.strategyEquitiesIdx[j]),
                               RDiv(LastObserved(j, sim.i), LastObserved(j, sim.i - 1)))
          /\ Last(sim'.combinedEquityIdx) =
                RAdd(RSum([j \in 1..Len(sim.activeStrategies) |->
                              RMul(sim.currentStratBalances[j], DayFactor(j))]),
                     sim.currentCashBalance)
      ]_vars

\* a strategy with a positive balance that had a price, then a date without one on which
\* its independent value stayed, then a date with another price on which it moved
C22_Witness ==
    /\ pc = "loop"
    /\ sim.i > 3
    /\ \E j \in 1..Len(sim.activeStrategies) :
          /\ ObservedUpTo(j, sim.i - 3) # {}
          /\ ~HasPrice(j, sim.i - 2)
          /\ HasPrice(j, sim.i - 1)
          /\ RPos(sim.strategyEquitiesIdx[j][sim.i - 2])
          /\ sim.strategyEquitiesIdx[j][sim.i - 2] = sim.strategyEquitiesIdx[j][sim.i - 3]
          /\ sim.strategyEquitiesIdx[j][sim.i - 1] # sim.strategyEquitiesIdx[j][sim.i - 2]


\* the price of a series on the chronologically first of its dates from date on
NearestLater(data, date) ==
    LET later == {d \in KeySet(data) : d >= date}
    IN  Get(data, CHOOSE d \in later : \A e \in later : d <= e)

\* the price active strategy j retains after the timeline date of index k, as specified:
\* the last one observed, and before any was observed the nearest later one
RetainedPrice(j, k) ==
    IF ObservedUpTo(j, k) # {} THEN LastObserved(j, k)
    ELSE NearestLater(sim.activeStrategies[j].data, parsedTimeline[1].date)

\* C23: each strategy's initial retained price is its price on the first timeline date,
\* or else its chronologically nearest later price; and on a day where the strategy's
\* previous price is <= 0 (a day-0 price of 0 included) its return is 0: its independent
\* value does not move that day.
C23_InitialPriceAndZeroGuard ==
    Running =>
        \A j \in 1..Len(sim.activeStrategies) :
            (\E d \in KeySet(sim.activeStrategies[j].data) : d >= parsedTimeline[1].date) =>
                /\ sim.i = 2 => sim.lastPrices[j] = RetainedPrice(j, 1)
                /\ \A k \in 2..(sim.i - 1) :
                      ~RPos(RetainedPrice(j, k - 1)) =>
                          sim.strategyEquitiesIdx[j][k] = sim.strategyEquitiesIdx[j][k - 1]


\* the price active strategy j carries after the timeline date of index k, from its data
\* alone: the initial one, until a later timeline date has a price
CarriedPrice(j, k) ==
    IF ObservedUpTo(j, k) \ {1} # {} THEN LastObserved(j, k)
    ELSE InitialPrice(sim.activeStrategies[j].data, parsedTimeline[1].date)

\* the strategy's own return on the timeline date of index k
OwnReturn(j, k) ==
    IF RPos(CarriedPrice(j, k - 1))
    THEN RDiv(RSub(CarriedPrice(j, k), CarriedPrice(j, k - 1)), CarriedPrice(j, k - 1))
    ELSE Zero

\* C24: the independent equity curve of strategy j starts at initialBalance x weight j and
\* each later value is the one before times (1 + the strategy's own return of the day);
\* nothing in it depends on the rebalancing policy, so the curves are the same under all
\* five.
C24_IndependentCurves ==
    Running =>
        \A j \in 1..Len(sim.activeStrategies) :
            /\ Len(sim.strategyEquitiesIdx[j]) = sim.i - 1
            /\ sim.strategyEquitiesIdx[j][1] =
                  RMul(R(initialBalance),
                       Rat(deferredAllocations[sim.activeStrategies[j].id], 100))
            /\ \A k \in 2..(sim.i - 1) :
                  sim.strategyEquitiesIdx[j][k] =
                      RMul(sim.strategyEquitiesIdx[j][k - 1], RAdd(One, OwnReturn(j, k)))

\* a finished run under a periodic policy that rebalanced: some strategy's balance is not
\* its independent value, and its independent curve moved
C24_Witness ==
    /\ pc = "done"
    /\ rebalanceFreq \in {"monthly", "quarterly", "annually"}
    /\ Len(sim.activeStrategies) = 2
    /\ \E j \in 1..2 :
          /\ sim.currentStratBalances[j] # Last(sim.strategyEquitiesIdx[j])
          /\ Last(sim.strategyEquitiesIdx[j]) # sim.strategyEquitiesIdx[j][1]


\* the benchmark has a price on the timeline date of index k
BenchmarkPrice(k) == Get(spyData.data, parsedTimeline[k].date) # Undefined

\* C25: whenever a benchmark is supplied and the simulation yields a result, the
\* benchmark curve has one value per timeline date, its first value is the initial
\* balance, and on a date without a benchmark price it repeats the value before.
C25_BenchmarkCurveAligned ==
    (pc = "done" /\ spyData.loaded) =>
        /\ Len(sim.spyEquityIdx) = Len(parsedTimeline)
        /\ sim.spyEquityIdx[1] = R(initialBalance)
        /\ \A k \in 2..Len(sim.spyEquityIdx) :
              ~BenchmarkPrice(k) => sim.spyEquityIdx[k] = sim.spyEquityIdx[k - 1]

\* the same for a benchmark that has a positive price on or after the first timeline
\* date
C25_AlignedWhenStartPriceFound ==
    (/\ pc = "done"
     /\ spyData.loaded
     /\ RPos(SpyStartPrice(spyData, parsedTimeline[1].date))) =>
        /\ Len(sim.spyEquityIdx) = Len(parsedTimeline)
        /\ sim.spyEquityIdx[1] = R(initialBalance)
        /\ \A k \in 2..Len(sim.spyEquityIdx) :
              ~BenchmarkPrice(k) => sim.spyEquityIdx[k] = sim.spyEquityIdx[k - 1]


\* twr[k] / 100 = combinedEquity[k] / initialBalance, without the division
Proportional(k) ==
    RMul(sim.twrEquityIdx[k], R(initialBalance)) = RMul(R(100), sim.combinedEquityIdx[k])

\* a stats record without its final balance (the one field that is a level, not a ratio)
ReturnStats(stats) == [f \in DOMAIN stats \ {"finalBalance"} |-> stats[f]]

\* C28: the TWR index starts at 100, has one value per processed date and at every index
\* is to 100 as the combined curve is to the initial balance, under every policy; so the
\* statistics of the TWR index are those of the combined curve.
C28_TwrProportional ==
    /\ Running =>
          /\ sim.twrEquityIdx[1] = R(100)
          /\ Len(sim.twrEquityIdx) = Len(sim.combinedEquityIdx)
          /\ \A k \in 1..Len(sim.twrEquityIdx) : Proportional(k)
    /\ (pc = "done" /\ initialBalance > 0) =>
          ReturnStats(calculateStats(sim.twrEquityIdx, DatesOnly(parsedTimeline)).stats) =
              ReturnStats(calculateStats(sim.combinedEquityIdx, DatesOnly(parsedTimeline)).stats)

\* the same for runs whose combined curve stays above 0
C28_ProportionalWhilePositive ==
    (Running /\ \A k \in 1..Len(sim.combinedEquityIdx) : RPos(sim.combinedEquityIdx[k])) =>
        /\ sim.twrEquityIdx[1] = R(100)
        /\ \A k \in 1..Len(sim.twrEquityIdx) : Proportional(k)
        /\ pc = "done" =>
              ReturnStats(calculateStats(sim.twrEquityIdx, DatesOnly(parsedTimeline)).stats) =
                  ReturnStats(calculateStats(sim.combinedEquityIdx,
                                             DatesOnly(parsedTimeline)).stats)


-----------------------------------------------------------------------------
(* Properties of the breakdowns of calculateStats (checked under FnSpec) *)

\* the product of 1 + f[k] over the keys k in S
RECURSIVE GrowthOver(_, _)
GrowthOver(f, S) ==
    IF S = {} THEN One
    ELSE LET k == CHOOSE x \in S : TRUE
         IN  RMul(RAdd(One, f[k]), GrowthOver(f, S \ {k}))

\* calculateStats returned for a curve of at least one value with as many dates
AlignedCall ==
    /\ Called("calculateStats")
    /\ Len(probe.equityCurve) >= 1
    /\ Len(probe.dates) = Len(probe.equityCurve)
    /\ ~probe.out.threw

\* C26: for a strictly positive curve with index-aligned dates, the months of each year
\* compound to the year's return, and the years compound to v_last / v_first, which is
\* 1 + totalReturn.
C26_BreakdownsCompound ==
    (AlignedCall /\ \A k \in 1..Len(probe.equityCurve) : RPos(probe.equityCurve[k])) =>
        LET st == probe.out.stats
            months(y) == {key \in DOMAIN st.monthlyReturns : key[1] = y}
        IN  /\ {key[1] : key \in DOMAIN st.monthlyReturns} = DOMAIN st.annualReturns
            /\ \A y \in DOMAIN st.annualReturns :
                  GrowthOver(st.monthlyReturns, months(y)) = RAdd(One, st.annualReturns[y])
            /\ GrowthOver(st.annualReturns, DOMAIN st.annualReturns) =
                  RDiv(Last(probe.equityCurve), probe.equityCurve[1])
            /\ GrowthOver(st.annualReturns, DOMAIN st.annualReturns) =
                  RAdd(One, st.totalReturn)

\* a positive curve that moved in each of two months of one year and in another year
C26_Witness ==
    /\ AlignedCall
    /\ \A k \in 1..Len(probe.equityCurve) : RPos(probe.equityCurve[k])
    /\ Cardinality(DOMAIN probe.out.stats.annualReturns) = 2
    /\ \E y \in DOMAIN probe.out.stats.annualReturns :
          /\ Cardinality({key \in DOMAIN probe.out.stats.monthlyReturns : key[1] = y}) = 2
          /\ \A key \in DOMAIN probe.out.stats.monthlyReturns :
                probe.out.stats.monthlyReturns[key] # Zero


\* the indices of the curve whose date lies in year y
InYear(y) == {k \in 1..Len(probe.equityCurve) : Year(probe.dates[k]) = y}

\* the largest fall (v[h] - v[k]) / v[h] from a positive value to a later one, both at
\* indices in S; 0 when nothing falls
LargestFall(S) ==
    LET falls == {RDiv(RSub(probe.equityCurve[h], probe.equityCurve[k]), probe.equityCurve[h]) :
                     <<h, k>> \in {p \in S \X S : p[1] <= p[2] /\ RPos(probe.equityCurve[p[1]])}}
    IN  IF falls = {} THEN Zero
        ELSE CHOOSE x \in falls : \A y \in falls : ~RGt(y, x)

\* C27: for a non-negative curve, annualMaxDrawdowns[y] is the maximum drawdown of the
\* values dated in year y alone, with the peak restarted at the year's first value; it
\* never exceeds the whole-curve maxDrawdown; a decline that began in the year before is
\* counted from year y's own first value only.
C27_AnnualDrawdownWithinYear ==
    (AlignedCall /\ \A k \in 1..Len(probe.equityCurve) : RNonNeg(probe.equityCurve[k])) =>
        LET st == probe.out.stats
        IN  /\ Len(probe.equityCurve) >= 2 =>
                  DOMAIN st.annualMaxDrawdowns = {Year(probe.dates[k]) : k \in DOMAIN probe.dates}
            /\ st.maxDrawdown = LargestFall(1..Len(probe.equityCurve))
            /\ \A y \in DOMAIN st.annualMaxDrawdowns :
                  /\ st.annualMaxDrawdowns[y] = LargestFall(InYear(y))
                  /\ ~RGt(st.annualMaxDrawdowns[y], st.maxDrawdown)

\* a curve that falls from its peak in one year into the next and falls on within it:
\* the second year's drawdown is positive and smaller than the whole curve's
C27_Witness ==
    /\ AlignedCall
    /\ \A k \in 1..Len(probe.equityCurve) : RNonNeg(probe.equityCurve[k])
    /\ \E y \in DOMAIN probe.out.stats.annualMaxDrawdowns :
          /\ (y - 1) \in DOMAIN probe.out.stats.annualMaxDrawdowns
          /\ RPos(probe.out.stats.annualMaxDrawdowns[y])
          /\ RGt(probe.out.stats.maxDrawdown, probe.out.stats.annualMaxDrawdowns[y])
          /\ RGt(probe.out.stats.maxDrawdown, probe.out.stats.annualMaxDrawdowns[y - 1])


-----------------------------------------------------------------------------
(* Properties of equal-weight, upload and remove (checked under UiSpec) *)

\* the sum of the values of an allocations object
RECURSIVE Total(_)
Total(a) ==
    IF DOMAIN a = {} THEN 0
    ELSE LET id == CHOOSE x \in DOMAIN a : TRUE
         IN  a[id] + Total([k \in DOMAIN a \ {id} |-> a[k]])

\* what the claim says of allocations after equal-weight, given those before it
Equalised(before, after) ==
    /\ DOMAIN after = DOMAIN before
    /\ Total(after) = 100
    /\ \A a, b \in {id \in DOMAIN before : before[id] > 0} : Abs(after[a] - after[b]) <= 1
    /\ \A id \in DOMAIN before : before[id] = 0 => after[id] = 0

\* C29: after equal-weight with at least one allocation > 0 the allocations sum to
\* exactly 100, any two that were active differ by at most 1 and every allocation that
\* was 0 is still 0; with none > 0 the handler changes nothing.
C29_EqualWeight ==
    /\ [][onEqualWeight => Equalised(allocations, allocations')]_vars
    /\ [](ActiveCount(allocations, allocOrder) = 0 => ~ENABLED onEqualWeight)

\* the same from states in which every allocation is in [0, 100]
C29_EqualWeightInRange ==
    [][(onEqualWeight /\ \A id \in DOMAIN allocations : allocations[id] \in 0..100) =>
          Equalised(allocations, allocations')]_vars


\* the step in which an upload is registered
UploadStep ==
    parsing.phase = "reading" /\ parsing'.phase = "done" /\ Len(strategies') = Len(strategies) + 1

\* the step in which a strategy is removed
RemoveStep == loading' = loading /\ Len(strategies') = Len(strategies) - 1

\* the run of the effect that the list's change brings about, in a session that has
\* loaded: the list ends with an upload (after loadData it holds the built-ins only)
EffectAfterListChange ==
    /\ effectDue
    /\ ~effectDue'
    /\ ~loading
    /\ Len(strategies) > 0
    /\ ~strategies[Len(strategies)].isBuiltIn

\* the strategies in ids have, after the step, the allocation they had before it
AllocationsKept(ids) == \A id \in ids : Alloc(allocations', id) = Alloc(allocations, id)

\* C30: an upload or a removal leaves the allocation of every other strategy as it was,
\* in the handler's own step and in the effect that the changed list sets off, also in a
\* session opened with strat/weights parameters whose sliders were moved since.
C30_OthersKept ==
    [][/\ (UploadStep \/ RemoveStep) => AllocationsKept(IdsOf(strategies) \cap IdsOf(strategies'))
       /\ EffectAfterListChange =>
             AllocationsKept(IdsOf(SubSeq(strategies, 1, Len(strategies) - 1)))
      ]_vars

\* the same in sessions opened without URL parameters
C30_OthersKeptWithoutParams ==
    [][urlParams = NoParams =>
          /\ (UploadStep \/ RemoveStep) =>
                AllocationsKept(IdsOf(strategies) \cap IdsOf(strategies'))
          /\ EffectAfterListChange =>
                AllocationsKept(IdsOf(SubSeq(strategies, 1, Len(strategies) - 1)))
      ]_vars

\* the handlers' own steps alone
C30_HandlerStepsKeep ==
    [][(UploadStep \/ RemoveStep) => AllocationsKept(IdsOf(strategies) \cap IdsOf(strategies'))
      ]_vars

=============================================================================
